---- MODULE Spec2Model ----
(***************************************************************************)
(* A model of mcprotocol-rs: the JSON-RPC message model, the HTTP/SSE      *)
(* server transport (client registry, per-client queues, built-in          *)
(* dispatcher, send routing) and the stdio lifecycle server / client pair. *)
(*                                                                         *)
(* The specifications of the module:                                       *)
(*   SpecHttp     the AxumHttpServer of src/src/transport/http/server.rs   *)
(*   SpecLife     examples/lifecycle_server.rs driven over its stdin pipe  *)
(*                by examples/lifecycle_client.rs or by an arbitrary peer  *)
(*   SpecCodec    the message model: used-ids sets and the JSON codec      *)
(*   SpecStdio    StdioClient with the child process it spawns             *)
(*   SpecServers  one of the three servers per run                         *)
(*   SpecDuplex   one transport shared by a sending and a receiving task   *)
(*   SpecSse      the HTTP server's subscriptions and streams step by step *)
(*   SpecAuth     the HTTP server's routes behind the bearer-token check   *)
(*   SpecPair     the example clients pairing replies with their requests  *)
(*   SpecHc       HttpClient with the reader task of its SSE stream        *)
(*   SpecSweep    the HTTP server with a clock and its cleanup tasks       *)
(*   SpecWriters  several tasks sending on one stdio transport             *)
(* Each leaves the variables of the other parts at their initial values.   *)
(***************************************************************************)
EXTENDS Integers, Sequences, FiniteSets, TLC

(***************************************************************************)
(* Bounds of the model.                                                    *)
(***************************************************************************)
\* lines a pipe of the stdio pair holds before a write blocks
MaxPipe == 1
\* SSE subscriptions the HTTP server accepts in one run
MaxClients == 2
\* messages one client's outbound channel holds before the SSE renderer drains it
MaxQueue == 1
\* POSTs to /messages in one run
MaxPosts == 2
\* lines an arbitrary peer writes to the lifecycle server's stdin
MaxLines == 4
\* validate_id_uniqueness calls on one session's used-ids set
MaxCalls == 3
\* messages the stdio client sends in one run
MaxSends == 2
\* calls of the stdio client's close in one run
MaxCloses == 2
\* calls of send by the sending task of the shared transport
MaxDuplexSends == 2
\* calls of receive by the receiving task of the shared transport
MaxDuplexRecvs == 3
\* bytes (JSON texts and newlines) or messages the inbound side holds unread
MaxInbound == 4
\* messages placed on the channels of the subscriptions in one run
MaxEnqueued == 2
\* well-formed message frames on one SSE stream: one more than the channel holds
MaxMsgFrames == 33
\* endpoint, keep-alive and malformed frames on one SSE stream
MaxOtherFrames == 2
\* calls of HttpClient::send in one run
MaxHcSends == 1
\* cleanup intervals the clock runs through
MaxTicks == 5
\* tasks that send on one stdio transport
MaxSenders == 2
\* calls of send by these tasks in one run
MaxSendCalls == 3

(***************************************************************************)
(* Program constants.                                                      *)
(***************************************************************************)
INVALID_REQUEST == -32600
METHOD_NOT_FOUND == -32601
SERVER_NOT_INITIALIZED == -32002

PROTOCOL_VERSION == "2024-11-05"
JSONRPC_VERSION == "2.0"

(***************************************************************************)
(* Option<T> and the JSON values the modelled code builds or inspects.     *)
(***************************************************************************)
None == [opt |-> "None"]
Some(v) == [opt |-> "Some", v |-> v]
IsSome(o) == o.opt = "Some"

\* json!(null)
JNull == [j |-> "null"]
\* json!({})
JEmptyObject == [j |-> "object", keys |-> {}]

(***************************************************************************)
(* RequestId: a two-variant union.  Equality is variant-wise, so           *)
(* Number(1) and String("1") differ.                                       *)
(***************************************************************************)
Number(n) == [tag |-> "Number", num |-> n, str |-> ""]
String(s) == [tag |-> "String", num |-> 0, str |-> s]

\* the request ids the environment uses
RequestIds == {Number(1), String("1")}

(***************************************************************************)
(* Messages.                                                               *)
(***************************************************************************)
Request(method, params, id) ==
    [kind |-> "Request", jsonrpc |-> JSONRPC_VERSION, method |-> method,
     params |-> params, id |-> id]

ResponseError(code, message, data) ==
    [code |-> code, message |-> message, data |-> data]

ResponseSuccess(result, id) ==
    [kind |-> "Response", jsonrpc |-> JSONRPC_VERSION, id |-> id,
     result |-> Some(result), error |-> None]

ResponseErr(error, id) ==
    [kind |-> "Response", jsonrpc |-> JSONRPC_VERSION, id |-> id,
     result |-> None, error |-> Some(error)]

Notification(method, params) ==
    [kind |-> "Notification", jsonrpc |-> JSONRPC_VERSION, method |-> method,
     params |-> params]

(***************************************************************************)
(* JSON on the wire.  A slot of an object is Absent or holds a JSON value. *)
(***************************************************************************)
Absent == [j |-> "absent"]
JString(s) == [j |-> "string", s |-> s]
JInt(n) == [j |-> "int", n |-> n]
\* a JSON number with a fraction
JFloat == [j |-> "float"]

\* Value::get("protocolVersion")
GetProtocolVersion(value) ==
    IF value.j = "object" /\ "protocolVersion" \in value.keys
    THEN value.protocolVersion
    ELSE Absent

\* Option<&Value>::and_then(Value::as_str)
AsStr(slot) == IF slot.j = "string" THEN Some(slot.s) ELSE None

\* Option::unwrap_or
UnwrapOr(o, default) == IF IsSome(o) THEN o.v ELSE default

\* i64::to_string, for the ids of the model
NumToString(n) ==
    CASE n = 0 -> "0" [] n = 1 -> "1" [] n = 2 -> "2" [] n = 3 -> "3" [] n = 4 -> "4"
      [] n = 5 -> "5" [] n = 6 -> "6" [] n = 7 -> "7" [] n = 8 -> "8" [] n = 9 -> "9"

\* a projection that keeps the variant apart from the text
IdStrTagged(id) == IF id.tag = "String" THEN "s:" \o id.str ELSE NumToString(id.num)

\* the textual projection validate_id_uniqueness inserts
IdStr(id) == IF id.tag = "String" THEN id.str ELSE NumToString(id.num)

\* serde, untagged RequestId: a JSON string or a JSON integer
IdToJson(id) == IF id.tag = "String" THEN JString(id.str) ELSE JInt(id.num)

JsonToId(slot) ==
    CASE slot.j = "string" -> Some(String(slot.s))
      [] slot.j = "int" -> Some(Number(slot.n))
      [] OTHER -> None

\* skip_serializing_if = "Option::is_none"
OptToSlot(o) == IF IsSome(o) THEN o.v ELSE Absent

\* Option<Value> on input: a missing key and null both give None
SlotToOpt(slot) == IF slot.j \in {"absent", "null"} THEN None ELSE Some(slot)

ErrorToJson(e) ==
    [j |-> "object", keys |-> {"code", "message"} \cup
                              (IF IsSome(e.data) THEN {"data"} ELSE {}),
     code |-> JInt(e.code), message |-> JString(e.message), data |-> OptToSlot(e.data)]

\* serde_json::to_string(&Message): one line of JSON
Serialize(m) ==
    CASE m.kind = "Request" ->
           [line |-> "json", jsonrpc |-> JString(m.jsonrpc), method |-> JString(m.method),
            params |-> OptToSlot(m.params), id |-> IdToJson(m.id),
            result |-> Absent, error |-> Absent]
      [] m.kind = "Response" ->
           [line |-> "json", jsonrpc |-> JString(m.jsonrpc), method |-> Absent,
            params |-> Absent, id |-> IdToJson(m.id),
            result |-> OptToSlot(m.result),
            error |-> IF IsSome(m.error) THEN ErrorToJson(m.error.v) ELSE Absent]
      [] m.kind = "Notification" ->
           [line |-> "json", jsonrpc |-> JString(m.jsonrpc), method |-> JString(m.method),
            params |-> OptToSlot(m.params), id |-> Absent,
            result |-> Absent, error |-> Absent]

\* a line that is not JSON
Garbage == [line |-> "garbage"]

IsErrorObject(slot) ==
    /\ slot.j = "object"
    /\ {"code", "message"} \subseteq slot.keys
    /\ slot.code.j = "int"
    /\ slot.message.j = "string"

ParsesAsRequest(l) ==
    l.jsonrpc.j = "string" /\ l.method.j = "string" /\ IsSome(JsonToId(l.id))

ParsesAsResponse(l) ==
    /\ l.jsonrpc.j = "string"
    /\ IsSome(JsonToId(l.id))
    /\ (l.error.j \in {"absent", "null"} \/ IsErrorObject(l.error))

ParsesAsNotification(l) == l.jsonrpc.j = "string" /\ l.method.j = "string"

(***************************************************************************)
(* serde_json::from_str::<Message>: the untagged enum takes the first      *)
(* variant that deserializes, in the order Request, Response,              *)
(* Notification; keys a variant does not know are ignored.                 *)
(***************************************************************************)
Parse(l) ==
    IF l.line # "json" THEN [ok |-> FALSE]
    ELSE IF ParsesAsRequest(l)
    THEN [ok |-> TRUE,
          msg |-> [kind |-> "Request", jsonrpc |-> l.jsonrpc.s, method |-> l.method.s,
                   params |-> SlotToOpt(l.params), id |-> JsonToId(l.id).v]]
    ELSE IF ParsesAsResponse(l)
    THEN [ok |-> TRUE,
          msg |-> [kind |-> "Response", jsonrpc |-> l.jsonrpc.s, id |-> JsonToId(l.id).v,
                   result |-> SlotToOpt(l.result),
                   error |-> IF l.error.j \in {"absent", "null"} THEN None
                             ELSE Some(ResponseError(l.error.code.n, l.error.message.s,
                                                     SlotToOpt(l.error.data)))]]
    ELSE IF ParsesAsNotification(l)
    THEN [ok |-> TRUE,
          msg |-> [kind |-> "Notification", jsonrpc |-> l.jsonrpc.s,
                   method |-> l.method.s, params |-> SlotToOpt(l.params)]]
    ELSE [ok |-> FALSE]

VARIABLES
    \* ---- AxumHttpServer ----
    clients,          \* the registry: ClientId -> ClientInfo (a function on the registered ids)
    next_client_id,   \* the AtomicU64 counter
    queue,            \* per issued client id: the contents of its unbounded channel
    rx,               \* client ids whose SSE stream still owns the channel's receiver
    lock,             \* holder of the registry mutex across an await: "free" or "send"
    bcast,            \* the notification broadcast in progress inside send, if any
    posts,            \* POSTs handled so far
    posted,           \* history: the request ids each client has POSTed
    initialized_by,   \* history: the clients that have POSTed the `initialized` notification
    ev,               \* the last operation and what it placed on which queue
    \* ---- the stdio lifecycle pair ----
    peer,             \* who writes the server's stdin: "lifecycle_client" or "any"
    stdin_pipe,       \* the lines written to the server's stdin and not yet read
    stdin_closed,     \* the write end of the server's stdin was closed
    stdout_pipe,      \* the lines the server wrote to stdout and the peer has not read
    srv_pc,           \* lifecycle_server: "receiving", "closing" (after the loop), "exited"
    srv_status,       \* the server's exit status: "none", "success", "failure"
    initialized,      \* lifecycle_server's `initialized`
    session_ids,      \* lifecycle_server's `session_ids`
    cpc,              \* lifecycle_client's position
    lines,            \* lines the arbitrary peer has written
    handled,          \* loop iterations the server has run
    init_answered,    \* history: the server has sent a success response to `initialize`
    exit_sent_to,     \* history: the server's position when the client sent `exit`
    lev,              \* the server's last loop iteration: what it read and what it sent
    \* ---- one session's used-ids set and the codec ----
    used_ids,         \* the HashSet<String> handed to validate_id_uniqueness
    id_hist,          \* history: the calls of validate_id_uniqueness, with their results
    cx,               \* the last codec operation: its input and what it produced
    \* ---- StdioClient and its child process ----
    child,            \* StdioClient.child: None, or Some once the child was spawned
    stdin,            \* StdioClient.stdin: the write end of the child's stdin, if held
    stdout,           \* StdioClient.stdout: the read end of the child's stdout, if held
    child_kind,       \* the program at server_path: "stdio_server", "failing" or "deaf"
    proc,             \* the child process: "none", "running", "success", "failure"
    to_child,         \* bytes written to the child's stdin and not yet read by it
    from_child,       \* bytes the child wrote to its stdout and the client has not read
    written,          \* history: all bytes the client wrote to the child's stdin
    ex_session_ids,   \* stdio_server's `session_ids`
    close_pc,         \* StdioClient::close: "idle", or "waiting" inside child.wait()
    closes,           \* calls of close that have returned
    sends,            \* calls of send so far
    sent_ids,         \* history: ids of the requests whose send returned Ok
    sev,              \* the client's last operation and its result
    xev,              \* stdio_server's last loop iteration: the request and the reply
    \* ---- the HTTP server behind its authentication middleware ----
    auth_token,       \* HttpServerConfig.auth_token
    http_req,         \* the last HTTP request: route, Authorization header, status, effect
    \* ---- the subscriptions of the HTTP server, step by step ----
    pending,          \* client ids taken from the counter whose record is not inserted yet
    issued,           \* history: the client ids in the order fetch_add handed them out
    stream_pc,        \* per client id: "none", "endpoint", "messages", "ended" or "dropped"
    frames,           \* history: per client id, the frames its stream has yielded
    enqueued,         \* history: per client id, the messages placed on its channel, and
                      \*   whether the endpoint frame was still to come
    \* ---- one transport used by a sending and a receiving task ----
    transport,        \* the transport: "stdio_client", "stdio_server" or "http_client"
    ready,            \* initialize has returned Ok (a StdioServer is ready from new())
    receiver,         \* HttpClient.receiver: Some while the mpsc receiver sits in its slot
    guards,           \* holder of the tokio mutexes `stdin` and `stdout`: "free", "send", "receive"
    inbound,          \* what the peer has written and the transport has not read
    inbound_closed,   \* the peer closed its end of the inbound stream
    outbound,         \* what the transport has written to the peer
    send_pc,          \* the sending task: "idle", "locked" (stdio) or "posting" (HTTP)
    send_msg,         \* the message of the send in progress
    send_overlap,     \* history: a receive has been blocked since the send in progress began
    recv_pc,          \* the receiving task: "idle", "locked" (stdio) or "receiving" (HTTP)
    eof_returned,     \* history: a receive has returned the end-of-input error
    dsends,           \* calls of send so far
    drecvs,           \* calls of receive so far
    dev,              \* the transport's last completed operation and its result
    \* ---- an example client and the replies it is given ----
    client_program,   \* the client: "lifecycle_client" or "ping_example"
    ppc,              \* the client's position in its main / run_client
    awaiting,         \* the id of the request whose reply the client waits for, if any
    ping_count,       \* run_client's `ping_count`
    ping_session_ids, \* run_client's `session_ids`
    pev,              \* the client's last step: what it sent, or what it received and did
    \* ---- HttpClient and its reader task ----
    message_endpoint, \* HttpClient.message_endpoint
    client_id_field,  \* HttpClient.client_id
    rx_in,            \* the channel's receiver: "none" before initialize, "slot" in
                      \*   HttpClient.receiver, "future" inside a call of receive, "dropped"
    channel,          \* the messages the mpsc channel holds
    reader_pc,        \* the reader task: "none", "reading", "storing_id", "sending", "returned"
    reader_msg,       \* the message the reader task is sending, 0 if none
    msg_frames,       \* well-formed message frames the reader has taken off the stream
    other_frames,     \* other frames the reader has taken off the stream
    init_pc,          \* initialize: "new", "waiting", "checking", "returned"
    retries,          \* initialize's `retries`
    init_result,      \* what initialize returned: "none", "Ok", "Err"
    closed_once,      \* history: close was called
    abandoned,        \* history: a future of receive was dropped before it was ready
    delivered,        \* history: the messages the calls of receive returned, in order
    lost,             \* history: messages taken off the stream that no receive can return
    hc_sends,         \* calls of send so far
    hev,              \* the caller's last completed operation and its result
    \* ---- the HTTP server's clock and its cleanup tasks ----
    now,              \* the present instant, in seconds since the server started
    connected_at,     \* per client id: ClientInfo.connected_at
    cleanup_now,      \* the `now` of the cleanup in progress, if there is one
    last_activity,    \* history: per client id, the instant of its subscription or latest POST
    last_post,        \* history: per client id, the instant of its latest POST, if any
    wev,              \* set by a cleanup, for the state it leads to: its `now`, and the
                      \*   registered ids before and after
    \* ---- several tasks sending on one stdio transport ----
    wr_transport,     \* the transport: "stdio_client" or "stdio_server"
    wr_guard,         \* the task that holds the guard of the `stdin` / `stdout` mutex, if any
    wr_pc,            \* per task: "idle", "locking", "head", "tail", "newline", "flush"
    wr_msg,           \* per task: the message of its send in progress, if any
    byte_stream,      \* what has been written to the pipe, piece by piece
    pipe_broken,      \* the peer has closed its end of the pipe
    wr_calls,         \* calls of send so far
    wr_results,       \* history: what the calls of send returned, in order
    \* ---- the run ----
    running           \* the program this run is of: "http", "life", "codec", "stdio", "duplex", "sse", "auth", "pair", "hc", "sweep", "writers"

httpVars == <<clients, next_client_id, queue, rx, lock, bcast, posts, posted, initialized_by, ev>>

lifeVars == <<peer, stdin_pipe, stdin_closed, stdout_pipe, srv_pc, srv_status, initialized,
              session_ids, cpc, lines, handled, init_answered, exit_sent_to, lev>>

codecVars == <<used_ids, id_hist, cx>>

stdioVars == <<child, stdin, stdout, child_kind, proc, to_child, from_child, written,
               ex_session_ids, close_pc, closes, sends, sent_ids, sev, xev>>

duplexVars == <<transport, ready, receiver, guards, inbound, inbound_closed, outbound,
                send_pc, send_msg, send_overlap, recv_pc, eof_returned, dsends, drecvs, dev>>

sseVars == <<pending, issued, stream_pc, frames, enqueued>>

authVars == <<auth_token, http_req>>

pairVars == <<client_program, ppc, awaiting, ping_count, ping_session_ids, pev>>

hcVars == <<message_endpoint, client_id_field, rx_in, channel, reader_pc, reader_msg,
            msg_frames, other_frames, init_pc, retries, init_result, closed_once,
            abandoned, delivered, lost, hc_sends, hev>>

sweepVars == <<now, connected_at, cleanup_now, last_activity, last_post, wev>>

writersVars == <<wr_transport, wr_guard, wr_pc, wr_msg, byte_stream, pipe_broken, wr_calls,
                 wr_results>>

\* the client-side pairing, HttpClient, cleanup and concurrent-send parts
lateVars == <<pairVars, hcVars, sweepVars, writersVars>>

vars == <<httpVars, lifeVars, codecVars, stdioVars, duplexVars, sseVars, authVars, lateVars, running>>

\* what the actions of one part leave alone
notHttpVars == <<lifeVars, codecVars, stdioVars, duplexVars, sseVars, authVars, lateVars, running>>
notLifeVars == <<httpVars, codecVars, stdioVars, duplexVars, sseVars, authVars, lateVars, running>>
notCodecVars == <<httpVars, lifeVars, stdioVars, duplexVars, sseVars, authVars, lateVars, running>>
notStdioVars == <<httpVars, lifeVars, codecVars, duplexVars, sseVars, authVars, lateVars, running>>
notDuplexVars == <<httpVars, lifeVars, codecVars, stdioVars, sseVars, authVars, lateVars, running>>
\* the subscription steps act on the HTTP server's state as well
notSseVars == <<lifeVars, codecVars, stdioVars, duplexVars, authVars, lateVars, running>>
\* and so do the requests that pass the middleware
notAuthVars == <<lifeVars, codecVars, stdioVars, duplexVars, sseVars, lateVars, running>>
earlyVars == <<httpVars, lifeVars, codecVars, stdioVars, duplexVars, sseVars, authVars>>
notPairVars == <<earlyVars, hcVars, sweepVars, writersVars, running>>
notHcVars == <<earlyVars, pairVars, sweepVars, writersVars, running>>
notWritersVars == <<earlyVars, pairVars, hcVars, sweepVars, running>>
\* the timed handlers act on the HTTP server's state as well
notSweepVars == <<lifeVars, codecVars, stdioVars, duplexVars, sseVars, authVars, pairVars,
                  hcVars, writersVars, running>>

ClientIds == 1..MaxClients

NoEvent == [op |-> "none"]

Registered == DOMAIN clients

(***************************************************************************)
(* ClientInfo as sse_handler creates it.                                   *)
(***************************************************************************)
NewClientInfo == [last_request_id |-> None]

InitHttp ==
    /\ clients = <<>>
    /\ next_client_id = 1
    /\ queue = [c \in ClientIds |-> <<>>]
    /\ rx = {}
    /\ lock = "free"
    /\ bcast = None
    /\ posts = 0
    /\ posted = [c \in ClientIds |-> {}]
    /\ initialized_by = {}
    /\ ev = NoEvent

\* m with key k added or replaced
Insert(m, k, v) == [x \in DOMAIN m \cup {k} |-> IF x = k THEN v ELSE m[x]]

\* m without key k
Remove(m, k) == [x \in DOMAIN m \ {k} |-> m[x]]

(***************************************************************************)
(* UnboundedSender::unbounded_send on the channel of client c: the message *)
(* is queued while the receiver lives and refused once it was dropped.     *)
(***************************************************************************)
ChannelOpen(c) == c \in rx

\* the queues after the deliveries `placed`, a sequence of <<client, message>>
RECURSIVE Deliver(_, _)
Deliver(q, placed) ==
    IF placed = <<>> THEN q
    ELSE LET c == Head(placed)[1]
             m == Head(placed)[2]
         IN Deliver([q EXCEPT ![c] = Append(@, m)], Tail(placed))

\* every channel has room for one more message
Room == \A c \in ClientIds : Len(queue[c]) < MaxQueue

(***************************************************************************)
(* GET /events: sse_handler.                                               *)
(***************************************************************************)
SseHandlerStep ==
    /\ lock = "free"
    /\ next_client_id <= MaxClients
    /\ LET client_id == next_client_id
       IN /\ next_client_id' = next_client_id + 1
          /\ clients' = Insert(clients, client_id, NewClientInfo)
          /\ rx' = rx \cup {client_id}
          /\ queue' = [queue EXCEPT ![client_id] = <<>>]
          /\ ev' = [op |-> "subscribe", client |-> client_id]
    /\ UNCHANGED <<lock, bcast, posts, posted, initialized_by>>

\* with no token configured the middleware passes every request on
SseHandler == SseHandlerStep /\ UNCHANGED notHttpVars

(***************************************************************************)
(* The SSE stream of client c renders the next queued message as an        *)
(* `event: message` frame.                                                 *)
(***************************************************************************)
SseForward(c) ==
    /\ c \in rx
    /\ queue[c] # <<>>
    /\ queue' = [queue EXCEPT ![c] = Tail(@)]
    /\ UNCHANGED <<clients, next_client_id, rx, lock, bcast, posts, posted, initialized_by, ev>>
    /\ UNCHANGED notHttpVars

(***************************************************************************)
(* The subscriber of client c goes away: the response body, and with it    *)
(* the stream and the receiver it owns, is dropped.  The statement after   *)
(* the forwarding loop is never reached on this path.                      *)
(***************************************************************************)
Disconnect(c) ==
    /\ c \in rx
    /\ rx' = rx \ {c}
    /\ queue' = [queue EXCEPT ![c] = <<>>]
    /\ UNCHANGED <<clients, next_client_id, lock, bcast, posts, posted, initialized_by, ev>>
    /\ UNCHANGED notHttpVars

(***************************************************************************)
(* The forwarding loop of client c ends: every sender is gone (the record  *)
(* left the registry) and the channel is drained; the stream then removes  *)
(* the record of its id.                                                   *)
(***************************************************************************)
StreamEnd(c) ==
    /\ lock = "free"
    /\ c \in rx
    /\ c \notin Registered
    /\ queue[c] = <<>>
    /\ rx' = rx \ {c}
    /\ clients' = Remove(clients, c)
    /\ UNCHANGED <<next_client_id, queue, lock, bcast, posts, posted, initialized_by, ev>>
    /\ UNCHANGED notHttpVars

(***************************************************************************)
(* POST /messages: message_handler.  The X-Client-ID header is absent or   *)
(* unparsable (None) or parses to a client id; the body is any message.    *)
(***************************************************************************)
Headers == {None} \cup {Some(c) : c \in ClientIds}

PostedRequests ==
    {Request(method, None, id) : method \in {"ping", "shutdown", "tools/list"},
                                 id \in RequestIds}

PostedNotifications == {Notification(method, None) : method \in {"exit", "initialized"}}

PostedResponses == {ResponseSuccess(JEmptyObject, Number(1))}

PostedMessages == PostedRequests \cup PostedNotifications \cup PostedResponses

\* a dispatcher that answers ping the way it answers shutdown
DispatchPingNull(request) ==
    CASE request.method \in {"ping", "shutdown"} -> ResponseSuccess(JNull, request.id)
      [] OTHER -> ResponseErr(ResponseError(METHOD_NOT_FOUND, "Method not found", None),
                              request.id)

\* the built-in dispatcher's reply to a request
Dispatch(request) ==
    CASE request.method = "ping" -> ResponseSuccess(JEmptyObject, request.id)
      [] request.method = "shutdown" -> ResponseSuccess(JNull, request.id)
      [] OTHER -> ResponseErr(ResponseError(METHOD_NOT_FOUND, "Method not found", None),
                              request.id)

\* the registry after the request's id was recorded for client_id
RecordLastRequestId(client_id, id) ==
    IF client_id \in Registered
    THEN [clients EXCEPT ![client_id].last_request_id = Some(id)]
    ELSE clients

\* what the handler puts on the requesting client's channel
ReplyPlaced(client_id, response) ==
    IF client_id \in Registered /\ ChannelOpen(client_id)
    THEN << <<client_id, response>> >>
    ELSE <<>>

MessageHandlerStep(header, message) ==
    /\ lock = "free"
    /\ posts < MaxPosts
    /\ Room
    /\ posts' = posts + 1
    /\ IF message.kind = "Request" /\ IsSome(header)
       THEN LET client_id == header.v
                response == Dispatch(message)
                placed == ReplyPlaced(client_id, response)
            IN /\ clients' = RecordLastRequestId(client_id, message.id)
               /\ posted' = IF client_id \in Registered
                            THEN [posted EXCEPT ![client_id] = @ \cup {message.id}]
                            ELSE posted
               /\ queue' = Deliver(queue, placed)
               /\ UNCHANGED initialized_by
               /\ ev' = [op |-> "post", header |-> header, msg |-> message,
                         registered |-> client_id \in Registered,
                         open |-> ChannelOpen(client_id),
                         placed |-> placed]
       ELSE /\ clients' = IF message.kind = "Notification" /\ message.method = "exit"
                          THEN <<>>
                          ELSE clients
            /\ ev' = [op |-> "post", header |-> header, msg |-> message,
                      registered |-> IsSome(header) /\ header.v \in Registered,
                      open |-> IsSome(header) /\ ChannelOpen(header.v),
                      placed |-> <<>>]
            /\ initialized_by' =
                 IF /\ message.kind = "Notification"
                    /\ message.method = "initialized"
                    /\ IsSome(header)
                 THEN initialized_by \cup {header.v}
                 ELSE initialized_by
            /\ UNCHANGED <<queue, posted>>
    /\ UNCHANGED <<next_client_id, rx, lock, bcast>>

\* with no token configured the middleware passes every request on
MessageHandler(header, message) ==
    MessageHandlerStep(header, message) /\ UNCHANGED notHttpVars

(***************************************************************************)
(* find_client_by_request_id: the candidates are the registered clients    *)
(* whose last_request_id equals the id; the function returns the first one *)
(* the HashMap's iteration yields, which is any of them.                   *)
(***************************************************************************)
FindClientByRequestId(request_id) ==
    {c \in Registered : clients[c].last_request_id = Some(request_id)}

(***************************************************************************)
(* send_to_client: Ok with nothing placed when the client has no record,   *)
(* Ok with the message placed when its channel is open, a Transport error  *)
(* when the channel's receiver is gone.                                    *)
(***************************************************************************)
SendToClient(client_id, message) ==
    IF client_id \notin Registered THEN [result |-> "Ok", placed |-> <<>>]
    ELSE IF ChannelOpen(client_id)
         THEN [result |-> "Ok", placed |-> << <<client_id, message>> >>]
         ELSE [result |-> "Err", placed |-> <<>>]

\* the messages the embedding application hands to send
SentResponses == {ResponseSuccess(JEmptyObject, id) : id \in RequestIds}

SentNotifications == {Notification("exit", None)}

SentRequests == {Request("ping", None, Number(1))}

(***************************************************************************)
(* send(Message::Response): `answers` is the client whose request the      *)
(* application is answering (a client that POSTed a request with this id), *)
(* or None for a response that answers no request; send is not told it.    *)
(***************************************************************************)
Answerable(response) ==
    {None} \cup {Some(c) : c \in {d \in ClientIds : response.id \in posted[d]}}

SendResponse(response, answers) ==
    /\ lock = "free"
    /\ bcast = None
    /\ Room
    /\ LET found == FindClientByRequestId(response.id)
       IN IF found = {}
          THEN /\ ev' = [op |-> "send", msg |-> response, answers |-> answers,
                         registered |-> Registered, connected |-> rx, result |-> "Ok",
                         placed |-> <<>>]
               /\ UNCHANGED queue
          ELSE \E client_id \in found :
                 LET r == SendToClient(client_id, response)
                 IN /\ queue' = Deliver(queue, r.placed)
                    /\ ev' = [op |-> "send", msg |-> response, answers |-> answers,
                              registered |-> Registered, connected |-> rx, result |-> r.result,
                              placed |-> r.placed]
    /\ UNCHANGED <<clients, next_client_id, rx, lock, bcast, posts, posted, initialized_by>>
    /\ UNCHANGED notHttpVars

(***************************************************************************)
(* send(Message::Notification): the registry guard is taken and held for   *)
(* the whole loop over the registered clients.                             *)
(***************************************************************************)
SendNotification(notification) ==
    /\ lock = "free"
    /\ bcast = None
    /\ Room
    /\ lock' = "send"
    /\ bcast' = Some([msg |-> notification, registered |-> Registered,
                      connected |-> rx, todo |-> Registered, placed |-> <<>>])
    /\ UNCHANGED <<clients, next_client_id, queue, rx, posts, posted, initialized_by, ev>>
    /\ UNCHANGED notHttpVars

\* tokio's Mutex::lock().await completes only while no guard is alive
MutexAcquirable == lock = "free"

(***************************************************************************)
(* One turn of the loop in send: with no client left the guard is dropped  *)
(* and send returns Ok; otherwise send_to_client is called for the next    *)
(* client, and it first awaits the registry mutex.                         *)
(***************************************************************************)
SendNotificationLoop ==
    /\ IsSome(bcast)
    /\ IF bcast.v.todo = {}
       THEN /\ lock' = "free"
            /\ bcast' = None
            /\ ev' = [op |-> "send", msg |-> bcast.v.msg, answers |-> None,
                      registered |-> bcast.v.registered,
                      connected |-> bcast.v.connected, result |-> "Ok",
                      placed |-> bcast.v.placed]
            /\ UNCHANGED queue
       ELSE /\ MutexAcquirable
            /\ \E client_id \in bcast.v.todo :
                 LET r == SendToClient(client_id, bcast.v.msg)
                 IN IF r.result = "Ok"
                    THEN /\ queue' = Deliver(queue, r.placed)
                         /\ bcast' = Some([bcast.v EXCEPT
                                             !.todo = @ \ {client_id},
                                             !.placed = @ \o r.placed])
                         /\ UNCHANGED <<lock, ev>>
                    ELSE /\ lock' = "free"
                         /\ bcast' = None
                         /\ ev' = [op |-> "send", msg |-> bcast.v.msg,
                                   answers |-> None,
                                   registered |-> bcast.v.registered,
                                   connected |-> bcast.v.connected,
                                   result |-> "Err",
                                   placed |-> bcast.v.placed]
                         /\ UNCHANGED queue
    /\ UNCHANGED <<clients, next_client_id, rx, posts, posted, initialized_by>>
    /\ UNCHANGED notHttpVars

(***************************************************************************)
(* send(Message::Request): ignored.                                        *)
(***************************************************************************)
SendRequest(request) ==
    /\ lock = "free"
    /\ bcast = None
    /\ ev' = [op |-> "send", msg |-> request, answers |-> None,
              registered |-> Registered, connected |-> rx, result |-> "Ok", placed |-> <<>>]
    /\ UNCHANGED <<clients, next_client_id, queue, rx, lock, bcast, posts, posted, initialized_by>>
    /\ UNCHANGED notHttpVars

\* a close that leaves the registry as it is
CloseKeepsRecords ==
    /\ lock = "free"
    /\ bcast = None
    /\ clients # <<>>
    /\ ev' = [op |-> "close"]
    /\ UNCHANGED <<clients, next_client_id, queue, rx, lock, bcast, posts, posted,
                   initialized_by>>
    /\ UNCHANGED notHttpVars

(***************************************************************************)
(* close: the registry is cleared.                                         *)
(***************************************************************************)
Close ==
    /\ lock = "free"
    /\ bcast = None
    /\ clients # <<>>
    /\ clients' = <<>>
    /\ ev' = [op |-> "close"]
    /\ UNCHANGED <<next_client_id, queue, rx, lock, bcast, posts, posted, initialized_by>>
    /\ UNCHANGED notHttpVars

NextHttp ==
    \/ SseHandler
    \/ \E c \in ClientIds : SseForward(c)
    \/ \E c \in ClientIds : Disconnect(c)
    \/ \E c \in ClientIds : StreamEnd(c)
    \/ \E header \in Headers, message \in PostedMessages : MessageHandler(header, message)
    \/ \E response \in SentResponses : \E answers \in Answerable(response) :
         SendResponse(response, answers)
    \/ \E notification \in SentNotifications : SendNotification(notification)
    \/ SendNotificationLoop
    \/ \E request \in SentRequests : SendRequest(request)
    \/ Close


(***************************************************************************)
(*                     Properties of the HTTP server                       *)
(***************************************************************************)

\* the clients on whose queue the last operation placed a message
PlacedOn == {ev.placed[i][1] : i \in 1..Len(ev.placed)}

LastWasSendOfResponse == ev.op = "send" /\ ev.msg.kind = "Response"

\* C1: a response handed to send in answer to the request with id X of client C
\* is never placed on the queue of a client other than C, also when several
\* clients used X as their latest request id.
C1_ResponseOnlyToRequester ==
    (LastWasSendOfResponse /\ IsSome(ev.answers)) => PlacedOn \subseteq {ev.answers.v}

\* C2: if client C POSTed a request with id X and is still registered (and its
\* SSE stream connected), a later send of the response with id X places it on
\* C's queue.
C2_ResponseReachesRequester ==
    (/\ LastWasSendOfResponse
     /\ IsSome(ev.answers)
     /\ ev.answers.v \in ev.registered \cap ev.connected)
    => \E i \in 1..Len(ev.placed) : ev.placed[i] = <<ev.answers.v, ev.msg>>

\* C3: a send of a notification while N >= 1 clients are registered returns
\* (a broadcast in progress can always take its next step), and on return
\* exactly one copy of the notification is on the queue of every client that
\* was registered (and connected).
C3_NotificationBroadcastReturns ==
    /\ IsSome(bcast) => ENABLED SendNotificationLoop
    /\ (/\ ev.op = "send"
        /\ ev.msg.kind = "Notification"
        /\ ev.registered # {})
       => \A c \in ev.registered \cap ev.connected :
            Cardinality({i \in 1..Len(ev.placed) : ev.placed[i] = <<c, ev.msg>>}) = 1

C6_HttpRejectsBeforeInitialized ==
    (/\ ev.op = "post"
     /\ ev.msg.kind = "Request"
     /\ ev.msg.method \notin {"initialize", "shutdown"}
     /\ ev.registered
     /\ ev.open
     /\ ev.header.v \notin initialized_by)
    => /\ Len(ev.placed) = 1
       /\ ev.placed[1][1] = ev.header.v
       /\ IsSome(ev.placed[1][2].error)
       /\ ev.placed[1][2].error.v.code = SERVER_NOT_INITIALIZED

(***************************************************************************)
(*        examples/lifecycle_server.rs and examples/lifecycle_client.rs    *)
(***************************************************************************)

\* lines a pipe holds before a write to it blocks
PipeRoom(pipe) == Len(pipe) < MaxPipe

\* the id values the peers use
LifeIds == {Number(1), Number(2)}

\* the params of an `initialize` request carrying the JSON value pv as protocolVersion
InitializeParams(pv) ==
    [j |-> "object", keys |-> {"protocolVersion", "capabilities", "clientInfo"},
     protocolVersion |-> pv]

\* the result of a successful `initialize`
InitializeResult ==
    [j |-> "object", keys |-> {"protocolVersion", "capabilities", "serverInfo"},
     protocolVersion |-> JString(PROTOCOL_VERSION)]

\* the data of the version-mismatch error
VersionErrorData(client_version) ==
    [j |-> "object", keys |-> {"supported", "requested"},
     supported |-> <<JString(PROTOCOL_VERSION)>>,
     requested |-> JString(client_version)]

\* the same error carrying an id of the server's own
ServerNotInitializedOwnId(id) ==
    ResponseErr(ResponseError(SERVER_NOT_INITIALIZED, "Server not initialized", None),
                Number(0))

ServerNotInitialized(id) ==
    ResponseErr(ResponseError(SERVER_NOT_INITIALIZED, "Server not initialized", None), id)

InitLifeWith(p) ==
    /\ peer = p
    /\ stdin_pipe = <<>>
    /\ stdin_closed = FALSE
    /\ stdout_pipe = <<>>
    /\ srv_pc = "receiving"
    /\ srv_status = "none"
    /\ initialized = FALSE
    /\ session_ids = {}
    /\ cpc = IF p = "lifecycle_client" THEN "send_initialize" ELSE "none"
    /\ lines = 0
    /\ handled = 0
    /\ init_answered = FALSE
    /\ exit_sent_to = "none"
    /\ lev = NoEvent

InitLife == \E p \in {"lifecycle_client", "any"} : InitLifeWith(p)

(***************************************************************************)
(* One message through the body of the server's loop.  The result names    *)
(* what was sent, the new `initialized` and `session_ids`, and whether the *)
(* loop continues or breaks.                                               *)
(***************************************************************************)
Outcome(sent, init, ids, next) ==
    [sent |-> sent, initialized |-> init, session_ids |-> ids, next |-> next]

HandleInitialize(request, init, ids) ==
    IF IsSome(request.params)
    THEN LET client_version ==
                 UnwrapOr(AsStr(GetProtocolVersion(request.params.v)), "unknown")
         IN IF client_version # PROTOCOL_VERSION
            THEN Outcome(<<ResponseErr(ResponseError(INVALID_REQUEST,
                                                     "Unsupported protocol version",
                                                     Some(VersionErrorData(client_version))),
                                       request.id)>>,
                         init, ids, "continue")
            ELSE Outcome(<<ResponseSuccess(InitializeResult, request.id)>>,
                         init, ids, "continue")
    ELSE Outcome(<<>>, init, ids, "continue")

\* a shutdown handler without the check of `initialized`
HandleShutdownUnchecked(request, init, ids) ==
    Outcome(<<ResponseSuccess(JNull, request.id)>>, init, ids, "break")

HandleShutdown(request, init, ids) ==
    IF ~init
    THEN Outcome(<<ServerNotInitialized(request.id)>>, init, ids, "continue")
    ELSE Outcome(<<ResponseSuccess(JNull, request.id)>>, init, ids, "break")

HandleOtherRequest(request, init, ids) ==
    IF ~init
    THEN Outcome(<<ServerNotInitialized(request.id)>>, init, ids, "continue")
    ELSE Outcome(<<>>, init, ids, "continue")

HandleRequest(request, init, ids) ==
    LET id_str == IdStr(request.id)
        used == ids \cup {id_str}
    IN IF id_str \in ids
       THEN Outcome(<<ResponseErr(ResponseError(INVALID_REQUEST,
                                                "Request ID has already been used", None),
                                  request.id)>>,
                    init, used, "continue")
       ELSE CASE request.method = "initialize" -> HandleInitialize(request, init, used)
              [] request.method = "shutdown" -> HandleShutdown(request, init, used)
              [] OTHER -> HandleOtherRequest(request, init, used)

HandleNotification(notification, init, ids) ==
    CASE notification.method = "initialized" -> Outcome(<<>>, TRUE, ids, "continue")
      [] notification.method = "exit" -> Outcome(<<>>, init, ids, "break")
      [] OTHER -> Outcome(<<>>, init, ids, "continue")

Handle(message, init, ids) ==
    CASE message.kind = "Request" -> HandleRequest(message, init, ids)
      [] message.kind = "Notification" -> HandleNotification(message, init, ids)
      [] OTHER -> Outcome(<<>>, init, ids, "continue")

\* the peer's end of the pipes is gone: the client process has ended
ClientGone == cpc \in {"returned", "failed", "done"}

RECURSIVE SerializeAll(_)
SerializeAll(msgs) ==
    IF msgs = <<>> THEN <<>> ELSE <<Serialize(Head(msgs))>> \o SerializeAll(Tail(msgs))

(***************************************************************************)
(* One iteration of the server's loop: receive, then the match on the      *)
(* message.  End of input and an unparsable line are receive errors, which *)
(* break the loop; a send to a closed stdout ends main with the error.     *)
(***************************************************************************)
ServerLoop ==
    /\ srv_pc = "receiving"
    /\ stdin_pipe # <<>> \/ stdin_closed
    /\ handled' = handled + 1
    /\ IF stdin_pipe = <<>>
       THEN /\ srv_pc' = "closing"
            /\ lev' = [op |-> "eof"]
            /\ UNCHANGED <<stdin_pipe, stdout_pipe, srv_status, initialized, session_ids,
                           init_answered>>
       ELSE LET line == Head(stdin_pipe)
                parsed == Parse(line)
            IN /\ stdin_pipe' = Tail(stdin_pipe)
               /\ IF ~parsed.ok
                  THEN /\ srv_pc' = "closing"
                       /\ lev' = [op |-> "invalid", line |-> line]
                       /\ UNCHANGED <<stdout_pipe, srv_status, initialized, session_ids,
                                      init_answered>>
                  ELSE LET o == Handle(parsed.msg, initialized, session_ids)
                           send_fails == o.sent # <<>> /\ ClientGone
                       IN /\ o.sent = <<>> \/ send_fails \/ PipeRoom(stdout_pipe)
                          /\ lev' = [op |-> "handle", msg |-> parsed.msg, sent |-> o.sent,
                                     was_initialized |-> initialized,
                                     was_answered |-> init_answered,
                                     fresh |-> parsed.msg.kind = "Request" /\
                                               IdStr(parsed.msg.id) \notin session_ids]
                          /\ session_ids' = o.session_ids
                          /\ initialized' = o.initialized
                          /\ stdout_pipe' = IF send_fails THEN stdout_pipe
                                            ELSE stdout_pipe \o SerializeAll(o.sent)
                          /\ init_answered' =
                               (init_answered \/
                                  (/\ ~send_fails
                                   /\ parsed.msg.kind = "Request"
                                   /\ parsed.msg.method = "initialize"
                                   /\ o.sent # <<>>
                                   /\ IsSome(o.sent[1].result)))
                          /\ srv_pc' = IF send_fails THEN "exited"
                                       ELSE IF o.next = "break" THEN "closing"
                                       ELSE "receiving"
                          /\ srv_status' = IF send_fails THEN "failure" ELSE srv_status
    /\ UNCHANGED <<peer, stdin_closed, cpc, lines, exit_sent_to>>
    /\ UNCHANGED notLifeVars

(***************************************************************************)
(* After the loop: server.close() writes a log line, main returns Ok and   *)
(* the process ends.                                                       *)
(***************************************************************************)
ServerClose ==
    /\ srv_pc = "closing"
    /\ srv_pc' = "exited"
    /\ srv_status' = "success"
    /\ UNCHANGED <<peer, stdin_pipe, stdin_closed, stdout_pipe, initialized, session_ids,
                   cpc, lines, handled, init_answered, exit_sent_to, lev>>
    /\ UNCHANGED notLifeVars

(***************************************************************************)
(* StdioClient::send as lifecycle_client uses it: the line is written to   *)
(* the child's stdin; the write fails once the child has exited.           *)
(***************************************************************************)
ClientSend(message, next_pc) ==
    IF srv_pc = "exited"
    THEN /\ cpc' = "failed"
         /\ stdin_closed' = TRUE
         /\ UNCHANGED stdin_pipe
    ELSE /\ PipeRoom(stdin_pipe)
         /\ stdin_pipe' = Append(stdin_pipe, Serialize(message))
         /\ cpc' = next_pc
         /\ UNCHANGED stdin_closed

\* StdioClient::receive can return: a line is there, or the child's stdout is at its end
ClientCanReceive == stdout_pipe # <<>> \/ srv_pc = "exited"

\* the client's own requests: ids 1 and 2 are fresh in its session_ids
ClientInitializeRequest ==
    Request("initialize", Some(InitializeParams(JString(PROTOCOL_VERSION))), Number(1))

ClientShutdownRequest == Request("shutdown", None, Number(2))

ClientSendInitialize ==
    /\ cpc = "send_initialize"
    /\ ClientSend(ClientInitializeRequest, "recv_initialize")
    /\ UNCHANGED <<peer, stdout_pipe, srv_pc, srv_status, initialized, session_ids, lines,
                   handled, init_answered, exit_sent_to, lev>>
    /\ UNCHANGED notLifeVars

\* where the client goes on the reply to `initialize`
AfterInitializeReply(received) ==
    IF ~received.ok THEN "returned"
    ELSE IF received.msg.kind # "Response" THEN "close"
    ELSE IF IsSome(received.msg.error) THEN "returned"
    ELSE IF ~IsSome(received.msg.result) THEN "close"
    ELSE IF UnwrapOr(AsStr(GetProtocolVersion(received.msg.result.v)), "unknown")
              # PROTOCOL_VERSION
    THEN "returned"
    ELSE "send_initialized"

\* where the client goes on the reply to `shutdown`
AfterShutdownReply(received) ==
    IF ~received.ok THEN "returned"
    ELSE IF received.msg.kind # "Response" THEN "close"
    ELSE IF IsSome(received.msg.error) THEN "returned"
    ELSE "send_exit"

\* what receive returns: the parsed head line, or an error at the end of the
\* child's stdout
ClientReceived ==
    IF stdout_pipe = <<>> THEN [ok |-> FALSE] ELSE Parse(Head(stdout_pipe))

\* receive, then the match on its result, which leads to next_pc
ClientReceive(next_pc) ==
    /\ ClientCanReceive
    /\ cpc' = next_pc
    /\ stdout_pipe' = IF stdout_pipe = <<>> THEN stdout_pipe ELSE Tail(stdout_pipe)
    /\ stdin_closed' = (stdin_closed \/ next_pc = "returned")

ClientReceiveInitialize ==
    /\ cpc = "recv_initialize"
    /\ ClientReceive(AfterInitializeReply(ClientReceived))
    /\ UNCHANGED <<peer, stdin_pipe, srv_pc, srv_status, initialized, session_ids, lines,
                   handled, init_answered, exit_sent_to, lev>>
    /\ UNCHANGED notLifeVars

ClientSendInitialized ==
    /\ cpc = "send_initialized"
    /\ ClientSend(Notification("initialized", None), "send_shutdown")
    /\ UNCHANGED <<peer, stdout_pipe, srv_pc, srv_status, initialized, session_ids, lines,
                   handled, init_answered, exit_sent_to, lev>>
    /\ UNCHANGED notLifeVars

ClientSendShutdown ==
    /\ cpc = "send_shutdown"
    /\ ClientSend(ClientShutdownRequest, "recv_shutdown")
    /\ UNCHANGED <<peer, stdout_pipe, srv_pc, srv_status, initialized, session_ids, lines,
                   handled, init_answered, exit_sent_to, lev>>
    /\ UNCHANGED notLifeVars

ClientReceiveShutdown ==
    /\ cpc = "recv_shutdown"
    /\ ClientReceive(AfterShutdownReply(ClientReceived))
    /\ UNCHANGED <<peer, stdin_pipe, srv_pc, srv_status, initialized, session_ids, lines,
                   handled, init_answered, exit_sent_to, lev>>
    /\ UNCHANGED notLifeVars

ClientSendExit ==
    /\ cpc = "send_exit"
    /\ ClientSend(Notification("exit", None), "close")
    /\ exit_sent_to' = srv_pc
    /\ UNCHANGED <<peer, stdout_pipe, srv_pc, srv_status, initialized, session_ids, lines,
                   handled, init_answered, lev>>
    /\ UNCHANGED notLifeVars

(***************************************************************************)
(* StdioClient::close: the child's stdin is dropped, then the child is     *)
(* awaited; main ends with Ok on a success status and with the Transport   *)
(* error otherwise.                                                        *)
(***************************************************************************)
ClientClose ==
    /\ cpc = "close"
    /\ stdin_closed' = TRUE
    /\ cpc' = "wait"
    /\ UNCHANGED <<peer, stdin_pipe, stdout_pipe, srv_pc, srv_status, initialized,
                   session_ids, lines, handled, init_answered, exit_sent_to, lev>>
    /\ UNCHANGED notLifeVars

ClientWait ==
    /\ cpc = "wait"
    /\ srv_pc = "exited"
    /\ cpc' = IF srv_status = "success" THEN "done" ELSE "failed"
    /\ UNCHANGED <<peer, stdin_pipe, stdin_closed, stdout_pipe, srv_pc, srv_status,
                   initialized, session_ids, lines, handled, init_answered, exit_sent_to,
                   lev>>
    /\ UNCHANGED notLifeVars

(***************************************************************************)
(* An arbitrary peer on the server's pipes.                                *)
(***************************************************************************)
PeerRequests ==
    {Request("initialize", params, id) :
        params \in {None,
                    Some(InitializeParams(JString(PROTOCOL_VERSION))),
                    Some(InitializeParams(JString("1.0.0"))),
                    Some(InitializeParams(JInt(1)))},
        id \in LifeIds}
    \cup {Request(method, None, id) : method \in {"shutdown", "tools/list"}, id \in LifeIds}

PeerNotifications == {Notification(method, None) : method \in {"initialized", "exit"}}

PeerLines == {Serialize(m) : m \in PeerRequests \cup PeerNotifications} \cup {Garbage}

PeerSend(line) ==
    /\ peer = "any"
    /\ lines < MaxLines
    /\ ~stdin_closed
    /\ srv_pc # "exited"
    /\ PipeRoom(stdin_pipe)
    /\ stdin_pipe' = Append(stdin_pipe, line)
    /\ lines' = lines + 1
    /\ UNCHANGED <<peer, stdin_closed, stdout_pipe, srv_pc, srv_status, initialized,
                   session_ids, cpc, handled, init_answered, exit_sent_to, lev>>
    /\ UNCHANGED notLifeVars

PeerRead ==
    /\ peer = "any"
    /\ stdout_pipe # <<>>
    /\ stdout_pipe' = Tail(stdout_pipe)
    /\ UNCHANGED <<peer, stdin_pipe, stdin_closed, srv_pc, srv_status, initialized,
                   session_ids, cpc, lines, handled, init_answered, exit_sent_to, lev>>
    /\ UNCHANGED notLifeVars

PeerClose ==
    /\ peer = "any"
    /\ ~stdin_closed
    /\ stdin_closed' = TRUE
    /\ UNCHANGED <<peer, stdin_pipe, stdout_pipe, srv_pc, srv_status, initialized,
                   session_ids, cpc, lines, handled, init_answered, exit_sent_to, lev>>
    /\ UNCHANGED notLifeVars

NextLife ==
    \/ ServerLoop
    \/ ServerClose
    \/ ClientSendInitialize
    \/ ClientReceiveInitialize
    \/ ClientSendInitialized
    \/ ClientSendShutdown
    \/ ClientReceiveShutdown
    \/ ClientSendExit
    \/ ClientClose
    \/ ClientWait
    \/ \E line \in PeerLines : PeerSend(line)
    \/ PeerRead
    \/ PeerClose

(***************************************************************************)
(* The message model on its own: one session's used-ids set under a        *)
(* sequence of validate_id_uniqueness calls, and the codec applied to      *)
(* messages built by the constructors and to inbound JSON objects.         *)
(***************************************************************************)
InitCodec ==
    /\ used_ids = {}
    /\ id_hist = <<>>
    /\ cx = [op |-> "none"]

\* the ids of the requests of one session
SessionIds == {Number(1), Number(2), String("1"), String("2")}

\* Request::validate_id_uniqueness: HashSet::insert of the textual projection
ValidateIdUniqueness(request, used) ==
    [result |-> IdStr(request.id) \notin used,
     used_ids |-> used \cup {IdStr(request.id)}]

CallValidateIdUniqueness(request) ==
    /\ Len(id_hist) < MaxCalls
    /\ LET r == ValidateIdUniqueness(request, used_ids)
       IN /\ used_ids' = r.used_ids
          /\ id_hist' = Append(id_hist, [id |-> request.id, result |-> r.result])
    /\ UNCHANGED cx
    /\ UNCHANGED notCodecVars

\* JSON values used as params, result and error data
Values == {JNull, JEmptyObject, JString("ok"), JInt(0)}

OptionalValues == {None} \cup {Some(v) : v \in Values}

\* the messages the constructors build
BuiltMessages ==
    {Request("ping", params, id) : params \in OptionalValues, id \in RequestIds}
    \cup {ResponseSuccess(result, id) : result \in Values, id \in RequestIds}
    \cup {ResponseErr(ResponseError(METHOD_NOT_FOUND, "Method not found", data), id) :
             data \in OptionalValues, id \in RequestIds}
    \cup {Notification("initialized", params) : params \in OptionalValues}

\* serde_json::to_string of a built message, then serde_json::from_str of the text
RoundTrip(m) ==
    /\ cx' = [op |-> "round_trip", msg |-> Some(m), line |-> Serialize(m),
              result |-> Parse(Serialize(m))]
    /\ UNCHANGED <<used_ids, id_hist>>
    /\ UNCHANGED notCodecVars

\* JSON objects a peer may put on a line
WireObjects ==
    {[line |-> "json", jsonrpc |-> jsonrpc, method |-> method, params |-> Absent,
      id |-> id, result |-> result, error |-> error] :
        jsonrpc \in {Absent, JString(JSONRPC_VERSION)},
        method \in {Absent, JString("ping")},
        id \in {Absent, JNull, JInt(1), JString("1"), JFloat, JEmptyObject},
        result \in {Absent, JNull, JEmptyObject},
        error \in {Absent, ErrorToJson(ResponseError(INVALID_REQUEST, "e", None))}}

\* receive: serde_json::from_str::<Message> of one inbound line; Ok(message)
\* when the line parses, an Err otherwise
Receive(l) ==
    /\ cx' = [op |-> "receive", msg |-> None, line |-> l, result |-> Parse(l)]
    /\ UNCHANGED <<used_ids, id_hist>>
    /\ UNCHANGED notCodecVars

NextCodec ==
    \/ \E id \in SessionIds : CallValidateIdUniqueness(Request("ping", None, id))
    \/ \E m \in BuiltMessages : RoundTrip(m)
    \/ \E l \in WireObjects \cup {Garbage} : Receive(l)

(***************************************************************************)
(* StdioClient (src/src/transport/stdio/client.rs) and the child it        *)
(* spawns.  The pipes are byte streams: a JSON text is one element, the    *)
(* newline byte another.  The child is examples/stdio_server.rs, or some   *)
(* other program that exits with a failure status when its stdin ends, or  *)
(* one that keeps running.                                                 *)
(***************************************************************************)
NewlineByte == [line |-> "newline"]

\* a string of the model that holds the character '\n'
StrHasNewline(str) == str \in {"a\nb"}

\* serde_json writes a string with its control characters escaped
EscapeStr(str) == IF str = "a\nb" THEN "a\\nb" ELSE str

\* json.contains('\n') on the text serde_json::to_string produced: the text is
\* compact, so a newline could only come from a string inside it
TextContainsNewline(json) ==
    \E slot \in {json.jsonrpc, json.method, json.params, json.id, json.result} :
        slot.j = "string" /\ StrHasNewline(EscapeStr(slot.s))

\* the bytes of a frame without its terminator
FrameUnterminated(json) == <<json>>

\* write_all(json.as_bytes()) then write_all(b"\n")
Frame(json) == <<json, NewlineByte>>

\* the body of send on either half, after the handle was obtained
WriteMessage(message) ==
    LET json == Serialize(message)
    IN IF TextContainsNewline(json)
       THEN [result |-> "Err", bytes |-> <<>>]
       ELSE [result |-> "Ok", bytes |-> Frame(json)]

\* position of the first newline byte of a stream, 0 if there is none
LineEnd(stream) ==
    IF \E i \in 1..Len(stream) : stream[i] = NewlineByte
    THEN CHOOSE i \in 1..Len(stream) :
           /\ stream[i] = NewlineByte
           /\ \A j \in 1..(i - 1) : stream[j] # NewlineByte
    ELSE 0

\* read_line returns: a line is complete, or the stream is at its end
CanReadLine(stream, eof) == LineEnd(stream) > 0 \/ eof

\* read_line: the bytes up to the newline (or to the end of the stream), and
\* what stays in the pipe
ReadLine(stream) ==
    IF LineEnd(stream) > 0
    THEN [line |-> SubSeq(stream, 1, LineEnd(stream) - 1), n |-> LineEnd(stream),
          rest |-> SubSeq(stream, LineEnd(stream) + 1, Len(stream))]
    ELSE [line |-> stream, n |-> Len(stream), rest |-> <<>>]

\* serde_json::from_str of a line: exactly one JSON text that is a Message
FromStr(line) == IF Len(line) = 1 THEN Parse(line[1]) ELSE [ok |-> FALSE]

InitStdio ==
    /\ child = None
    /\ stdin = None
    /\ stdout = None
    /\ child_kind = "none"
    /\ proc = "none"
    /\ to_child = <<>>
    /\ from_child = <<>>
    /\ written = <<>>
    /\ ex_session_ids = {}
    /\ close_pc = "idle"
    /\ closes = 0
    /\ sends = 0
    /\ sent_ids = {}
    /\ sev = [op |-> "none"]
    /\ xev = [op |-> "none"]

\* the fields close and the other operations look at
Handles == [child |-> child, stdin |-> stdin, stdout |-> stdout]

ChildKinds == {"stdio_server", "failing", "deaf"}

\* StdioClient::initialize: spawn the program with piped stdin and stdout
StdioInitialize(kind) ==
    /\ proc = "none"
    /\ closes = 0
    /\ close_pc = "idle"
    /\ child' = Some("child")
    /\ stdin' = Some("stdin")
    /\ stdout' = Some("stdout")
    /\ child_kind' = kind
    /\ proc' = "running"
    /\ sev' = [op |-> "initialize", result |-> "Ok"]
    /\ UNCHANGED <<to_child, from_child, written, ex_session_ids, close_pc, closes, sends,
                   sent_ids, xev>>
    /\ UNCHANGED notStdioVars

\* the messages the client sends
StdioMessages ==
    {Request(method, params, id) :
        method \in {"prompts/execute"}, params \in {None, Some(JString("a\nb"))},
        id \in RequestIds}
    \cup {Request("ping", None, Number(1)), Notification("initialized", None)}

\* StdioClient::send
StdioSend(message) ==
    /\ close_pc = "idle"
    /\ sends < MaxSends
    /\ sends' = sends + 1
    /\ LET w == IF IsSome(stdin) THEN WriteMessage(message)
                ELSE [result |-> "Err", bytes |-> <<>>]
       IN /\ to_child' = to_child \o w.bytes
          /\ written' = written \o w.bytes
          /\ sent_ids' = IF w.result = "Ok" /\ message.kind = "Request"
                         THEN sent_ids \cup {IdStr(message.id)}
                         ELSE sent_ids
          /\ sev' = [op |-> "send", msg |-> message, result |-> w.result,
                     bytes |-> w.bytes,
                     reused |-> message.kind = "Request" /\ IdStr(message.id) \in sent_ids]
    /\ UNCHANGED <<child, stdin, stdout, child_kind, proc, from_child, ex_session_ids,
                   close_pc, closes, xev>>
    /\ UNCHANGED notStdioVars

\* StdioClient::receive: one line of the child's stdout, parsed
StdioReceive ==
    /\ close_pc = "idle"
    /\ IF ~IsSome(stdout)
       THEN /\ sev' = [op |-> "receive", result |-> "Err", parsed |-> [ok |-> FALSE]]
            /\ UNCHANGED from_child
       ELSE /\ CanReadLine(from_child, proc \in {"success", "failure"})
            /\ LET r == ReadLine(from_child)
               IN /\ from_child' = r.rest
                  /\ sev' = [op |-> "receive",
                             result |-> IF r.n > 0 /\ FromStr(r.line).ok THEN "Ok" ELSE "Err",
                             parsed |-> IF r.n > 0 THEN FromStr(r.line) ELSE [ok |-> FALSE]]
    /\ UNCHANGED <<child, stdin, stdout, child_kind, proc, to_child, written,
                   ex_session_ids, close_pc, closes, sends, sent_ids, xev>>
    /\ UNCHANGED notStdioVars

\* the result of close after child.wait() returned the exit status
CloseResultOk(status) == "Ok"

CloseResult(status) == IF status = "success" THEN "Ok" ELSE "Err"

\* StdioClient::close up to child.wait(): take the child and drop stdin; with
\* no child to take, clear stdout and return Ok
StdioClose ==
    /\ close_pc = "idle"
    /\ closes < MaxCloses
    /\ IF IsSome(child)
       THEN /\ child' = None
            /\ stdin' = None
            /\ close_pc' = "waiting"
            /\ sev' = [op |-> "close_called", before |-> Handles]
            /\ UNCHANGED <<stdout, closes>>
       ELSE /\ stdout' = None
            /\ closes' = closes + 1
            /\ sev' = [op |-> "close", nth |-> closes + 1, result |-> "Ok", waited |-> FALSE,
                       before |-> Handles,
                       after |-> [child |-> child, stdin |-> stdin, stdout |-> None]]
            /\ UNCHANGED <<child, stdin, close_pc>>
    /\ UNCHANGED <<child_kind, proc, to_child, from_child, written, ex_session_ids, sends,
                   sent_ids, xev>>
    /\ UNCHANGED notStdioVars

\* StdioClient::close from child.wait() on: the child has exited
StdioCloseWait ==
    /\ close_pc = "waiting"
    /\ proc \in {"success", "failure"}
    /\ close_pc' = "idle"
    /\ closes' = closes + 1
    /\ stdout' = IF CloseResult(proc) = "Ok" THEN None ELSE stdout
    /\ sev' = [op |-> "close", nth |-> closes + 1, result |-> CloseResult(proc),
               waited |-> TRUE, before |-> sev.before,
               after |-> [child |-> child, stdin |-> stdin, stdout |-> stdout']]
    /\ UNCHANGED <<child, stdin, child_kind, proc, to_child, from_child, written,
                   ex_session_ids, sends, sent_ids, xev>>
    /\ UNCHANGED notStdioVars

\* the child's stdin is at its end: the client dropped the write end and
\* everything written was read
ChildStdinEof == proc = "running" /\ ~IsSome(stdin) /\ to_child = <<>>

\* examples/stdio_server.rs, the Message::Request arm: the messages it sends
ExampleReply(request, ids) ==
    IF IdStr(request.id) \in ids
    THEN <<ResponseErr(ResponseError(INVALID_REQUEST, "Request ID has already been used",
                                     None), request.id)>>
    ELSE IF request.method = "prompts/execute"
    THEN <<ResponseSuccess([j |-> "object", keys |-> {"content", "role"}], request.id)>>
    ELSE <<ResponseErr(ResponseError(METHOD_NOT_FOUND, "Method not found", None),
                       request.id)>>

\* the bytes StdioServer::send writes for a sequence of at most one message
Emit(msgs) == IF msgs = <<>> THEN <<>> ELSE WriteMessage(msgs[1]).bytes

\* examples/stdio_server.rs: one iteration of the loop on a line of stdin
ExampleServerLoop ==
    /\ child_kind = "stdio_server"
    /\ proc = "running"
    /\ to_child # <<>>
    /\ CanReadLine(to_child, ~IsSome(stdin))
    /\ LET r == ReadLine(to_child)
           received == FromStr(r.line)
       IN /\ to_child' = r.rest
          /\ IF ~received.ok
             THEN /\ proc' = "success"
                  /\ xev' = [op |-> "invalid"]
                  /\ UNCHANGED <<from_child, ex_session_ids>>
             ELSE IF received.msg.kind = "Request"
             THEN /\ xev' = [op |-> "request", msg |-> received.msg,
                             sent |-> ExampleReply(received.msg, ex_session_ids)]
                  /\ from_child' =
                       from_child \o Emit(ExampleReply(received.msg, ex_session_ids))
                  /\ ex_session_ids' = ex_session_ids \cup {IdStr(received.msg.id)}
                  /\ UNCHANGED proc
             ELSE /\ xev' = [op |-> "other", msg |-> received.msg, sent |-> <<>>]
                  /\ UNCHANGED <<from_child, ex_session_ids, proc>>
    /\ UNCHANGED <<child, stdin, stdout, child_kind, written, close_pc, closes, sends,
                   sent_ids, sev>>
    /\ UNCHANGED notStdioVars

\* examples/stdio_server.rs: receive fails at the end of stdin, the loop breaks
\* and main returns Ok
ExampleServerEof ==
    /\ child_kind = "stdio_server"
    /\ ChildStdinEof
    /\ proc' = "success"
    /\ xev' = [op |-> "eof"]
    /\ UNCHANGED <<child, stdin, stdout, child_kind, to_child, from_child, written,
                   ex_session_ids, close_pc, closes, sends, sent_ids, sev>>
    /\ UNCHANGED notStdioVars

\* a program that drains its stdin and exits with a failure status at its end
FailingChildRead ==
    /\ child_kind = "failing"
    /\ proc = "running"
    /\ to_child # <<>>
    /\ to_child' = <<>>
    /\ UNCHANGED <<child, stdin, stdout, child_kind, proc, from_child, written,
                   ex_session_ids, close_pc, closes, sends, sent_ids, sev, xev>>
    /\ UNCHANGED notStdioVars

FailingChildExit ==
    /\ child_kind = "failing"
    /\ ChildStdinEof
    /\ proc' = "failure"
    /\ UNCHANGED <<child, stdin, stdout, child_kind, to_child, from_child, written,
                   ex_session_ids, close_pc, closes, sends, sent_ids, sev, xev>>
    /\ UNCHANGED notStdioVars

\* the steps of the child process; a "deaf" child has none: it neither reads
\* its stdin nor exits
ChildNext ==
    \/ ExampleServerLoop
    \/ ExampleServerEof
    \/ FailingChildRead
    \/ FailingChildExit

NextStdio ==
    \/ \E kind \in ChildKinds : StdioInitialize(kind)
    \/ \E message \in StdioMessages : StdioSend(message)
    \/ StdioReceive
    \/ StdioClose
    \/ StdioCloseWait
    \/ ChildNext

(***************************************************************************)
(* One transport used by two tasks at once, a sender and a receiver        *)
(* (send and receive take &self): StdioClient, StdioServer or HttpClient,  *)
(* with the mutexes each operation holds across its awaits.  The peer      *)
(* writes the inbound stream and may close it.                             *)
(***************************************************************************)
Transports == {"stdio_client", "stdio_server", "http_client"}

StdioTransports == {"stdio_client", "stdio_server"}

InitDuplexWith(kind) ==
    /\ transport = kind
    /\ ready = (kind = "stdio_server")
    /\ receiver = None
    /\ guards = [m \in {"stdin", "stdout"} |-> "free"]
    /\ inbound = <<>>
    /\ inbound_closed = FALSE
    /\ outbound = <<>>
    /\ send_pc = "idle"
    /\ send_msg = None
    /\ send_overlap = FALSE
    /\ recv_pc = "idle"
    /\ eof_returned = FALSE
    /\ dsends = 0
    /\ drecvs = 0
    /\ dev = [op |-> "none"]

InitDuplex == \E kind \in Transports : InitDuplexWith(kind)

\* the inbound side has something for a pending read: a complete line or the
\* end of the stream (stdio), a queued message or a closed channel (HTTP)
InboundReady ==
    IF transport = "http_client"
    THEN inbound # <<>> \/ inbound_closed
    ELSE CanReadLine(inbound, inbound_closed)

\* a receive is in progress and waits for inbound data
ReceiveBlocked ==
    /\ recv_pc \in {"locked", "receiving"}
    /\ ready \/ transport = "http_client"
    /\ ~InboundReady

\* the messages the sending task sends
DuplexMessages == {Request("ping", None, Number(1)), Notification("initialized", None)}

\* what a completed send reports
SendEvent(result) ==
    [op |-> "send", msg |-> send_msg.v, result |-> result,
     during_receive |-> send_overlap /\ ReceiveBlocked]

\* what a completed receive reports
ReceiveEvent(r, at_eof) ==
    [op |-> "receive", result |-> r.result, error |-> r.error, msg |-> r.msg,
     at_eof |-> at_eof, after_eof |-> eof_returned]

Ok(message) == [result |-> "Ok", error |-> "none", msg |-> Some(message)]

Err(kind) == [result |-> "Err", error |-> kind, msg |-> None]

\* StdioClient::initialize: the child is spawned and its pipes are stored
StdioClientInitialize ==
    /\ transport = "stdio_client"
    /\ ~ready
    /\ send_pc = "idle" /\ recv_pc = "idle"
    /\ ready' = TRUE
    /\ dev' = [op |-> "initialize", result |-> "Ok"]
    /\ UNCHANGED <<transport, receiver, guards, inbound, inbound_closed, outbound, send_pc,
                   send_msg, send_overlap, recv_pc, eof_returned, dsends, drecvs>>
    /\ UNCHANGED notDuplexVars

\* StdioClient::send up to the point where it holds the guard of `stdin`
StdioClientSendLock(message) ==
    /\ transport = "stdio_client"
    /\ send_pc = "idle"
    /\ dsends < MaxDuplexSends
    /\ guards["stdin"] = "free"
    /\ guards' = [guards EXCEPT !["stdin"] = "send"]
    /\ send_pc' = "locked"
    /\ send_msg' = Some(message)
    /\ send_overlap' = ReceiveBlocked
    /\ dsends' = dsends + 1
    /\ UNCHANGED <<transport, ready, receiver, inbound, inbound_closed, outbound, recv_pc,
                   eof_returned, drecvs, dev>>
    /\ UNCHANGED notDuplexVars

\* StdioClient::send from there on: the handle is looked up, the frame is
\* written and the guard is dropped
StdioClientSendWrite ==
    /\ transport = "stdio_client"
    /\ send_pc = "locked"
    /\ LET w == IF ready THEN WriteMessage(send_msg.v)
                ELSE [result |-> "Err", bytes |-> <<>>]
       IN /\ outbound' = outbound \o w.bytes
          /\ dev' = SendEvent(w.result)
    /\ guards' = [guards EXCEPT !["stdin"] = "free"]
    /\ send_pc' = "idle"
    /\ send_msg' = None
    /\ send_overlap' = FALSE
    /\ UNCHANGED <<transport, ready, receiver, inbound, inbound_closed, recv_pc,
                   eof_returned, dsends, drecvs>>
    /\ UNCHANGED notDuplexVars

\* StdioClient::receive up to the point where it holds the guard of `stdout`
StdioClientReceiveLock ==
    /\ transport = "stdio_client"
    /\ recv_pc = "idle"
    /\ drecvs < MaxDuplexRecvs
    /\ guards["stdout"] = "free"
    /\ guards' = [guards EXCEPT !["stdout"] = "receive"]
    /\ recv_pc' = "locked"
    /\ drecvs' = drecvs + 1
    /\ UNCHANGED <<transport, ready, receiver, inbound, inbound_closed, outbound, send_pc,
                   send_msg, send_overlap, eof_returned, dsends, dev>>
    /\ UNCHANGED notDuplexVars

\* a client receive that takes the end of the stream for an empty notification
StdioClientReceiveResultLenient(r) ==
    IF r.n = 0 THEN Ok(Notification("", None))
    ELSE IF FromStr(r.line).ok THEN Ok(FromStr(r.line).msg)
    ELSE Err("Serialization")

\* what StdioClient::receive returns for the outcome r of read_line: an empty
\* `line` is the end of the stream; a parse failure is converted by `?`
StdioClientReceiveResult(r) ==
    IF r.n = 0 THEN Err("Transport")
    ELSE IF FromStr(r.line).ok THEN Ok(FromStr(r.line).msg)
    ELSE Err("Serialization")

\* StdioClient::receive from there on: read_line returns, the guard is dropped
StdioClientReceiveRead ==
    /\ transport = "stdio_client"
    /\ recv_pc = "locked"
    /\ IF ~ready
       THEN /\ dev' = ReceiveEvent(Err("Transport"), FALSE)
            /\ UNCHANGED <<inbound, eof_returned>>
       ELSE /\ CanReadLine(inbound, inbound_closed)
            /\ LET r == ReadLine(inbound)
               IN /\ inbound' = r.rest
                  /\ dev' = ReceiveEvent(StdioClientReceiveResult(r), r.n = 0)
                  /\ eof_returned' = (eof_returned \/ r.n = 0)
    /\ guards' = [guards EXCEPT !["stdout"] = "free"]
    /\ recv_pc' = "idle"
    /\ send_overlap' = FALSE
    /\ UNCHANGED <<transport, ready, receiver, inbound_closed, outbound, send_pc, send_msg,
                   dsends, drecvs>>
    /\ UNCHANGED notDuplexVars

\* a server send that locks the mutex receive holds
StdioServerSendMutexShared == "stdin"

\* the mutex StdioServer::send locks
StdioServerSendMutex == "stdout"

\* StdioServer::send up to the point where it holds the guard of `stdout`
StdioServerSendLock(message) ==
    /\ transport = "stdio_server"
    /\ send_pc = "idle"
    /\ dsends < MaxDuplexSends
    /\ guards[StdioServerSendMutex] = "free"
    /\ guards' = [guards EXCEPT ![StdioServerSendMutex] = "send"]
    /\ send_pc' = "locked"
    /\ send_msg' = Some(message)
    /\ send_overlap' = ReceiveBlocked
    /\ dsends' = dsends + 1
    /\ UNCHANGED <<transport, ready, receiver, inbound, inbound_closed, outbound, recv_pc,
                   eof_returned, drecvs, dev>>
    /\ UNCHANGED notDuplexVars

\* StdioServer::send from there on
StdioServerSendWrite ==
    /\ transport = "stdio_server"
    /\ send_pc = "locked"
    /\ LET w == WriteMessage(send_msg.v)
       IN /\ outbound' = outbound \o w.bytes
          /\ dev' = SendEvent(w.result)
    /\ guards' = [guards EXCEPT ![StdioServerSendMutex] = "free"]
    /\ send_pc' = "idle"
    /\ send_msg' = None
    /\ send_overlap' = FALSE
    /\ UNCHANGED <<transport, ready, receiver, inbound, inbound_closed, recv_pc,
                   eof_returned, dsends, drecvs>>
    /\ UNCHANGED notDuplexVars

\* StdioServer::receive up to the point where it holds the guard of `stdin`
StdioServerReceiveLock ==
    /\ transport = "stdio_server"
    /\ recv_pc = "idle"
    /\ drecvs < MaxDuplexRecvs
    /\ guards["stdin"] = "free"
    /\ guards' = [guards EXCEPT !["stdin"] = "receive"]
    /\ recv_pc' = "locked"
    /\ drecvs' = drecvs + 1
    /\ UNCHANGED <<transport, ready, receiver, inbound, inbound_closed, outbound, send_pc,
                   send_msg, send_overlap, eof_returned, dsends, dev>>
    /\ UNCHANGED notDuplexVars

\* what StdioServer::receive returns for the outcome r of read_line
StdioServerReceiveResult(r) ==
    IF r.n = 0 THEN Err("Transport")
    ELSE IF FromStr(r.line).ok THEN Ok(FromStr(r.line).msg)
    ELSE Err("Transport")

\* StdioServer::receive from there on
StdioServerReceiveRead ==
    /\ transport = "stdio_server"
    /\ recv_pc = "locked"
    /\ CanReadLine(inbound, inbound_closed)
    /\ LET r == ReadLine(inbound)
       IN /\ inbound' = r.rest
          /\ dev' = ReceiveEvent(StdioServerReceiveResult(r), r.n = 0)
          /\ eof_returned' = (eof_returned \/ r.n = 0)
    /\ guards' = [guards EXCEPT !["stdin"] = "free"]
    /\ recv_pc' = "idle"
    /\ send_overlap' = FALSE
    /\ UNCHANGED <<transport, ready, receiver, inbound_closed, outbound, send_pc, send_msg,
                   dsends, drecvs>>
    /\ UNCHANGED notDuplexVars

\* HttpClient::initialize: the receiver of a new channel is stored; the
\* endpoint and the client id are set once the endpoint event has arrived,
\* and initialize fails when it has not arrived in time
HttpClientInitialize(got_endpoint) ==
    /\ transport = "http_client"
    /\ ~ready /\ receiver = None
    /\ send_pc = "idle" /\ recv_pc = "idle"
    /\ dev.op = "none"
    /\ receiver' = Some("rx")
    /\ ready' = got_endpoint
    /\ dev' = [op |-> "initialize", result |-> IF got_endpoint THEN "Ok" ELSE "Err"]
    /\ UNCHANGED <<transport, guards, inbound, inbound_closed, outbound, send_pc, send_msg,
                   send_overlap, recv_pc, eof_returned, dsends, drecvs>>
    /\ UNCHANGED notDuplexVars

\* HttpClient::send up to the POST: the endpoint and the client id are cloned
\* out of their mutexes
HttpClientSendFields(message) ==
    /\ transport = "http_client"
    /\ send_pc = "idle"
    /\ dsends < MaxDuplexSends
    /\ dsends' = dsends + 1
    /\ IF ready
       THEN /\ send_pc' = "posting"
            /\ send_msg' = Some(message)
            /\ send_overlap' = ReceiveBlocked
            /\ UNCHANGED dev
       ELSE /\ dev' = [op |-> "send", msg |-> message, result |-> "Err",
                       during_receive |-> FALSE]
            /\ UNCHANGED <<send_pc, send_msg, send_overlap>>
    /\ UNCHANGED <<transport, ready, receiver, guards, inbound, inbound_closed, outbound,
                   recv_pc, eof_returned, drecvs>>
    /\ UNCHANGED notDuplexVars

\* HttpClient::send from there on: the POST is answered with a status
HttpClientSendPost(status) ==
    /\ transport = "http_client"
    /\ send_pc = "posting"
    /\ outbound' = Append(outbound, Serialize(send_msg.v))
    /\ dev' = SendEvent(IF status = "2xx" THEN "Ok" ELSE "Err")
    /\ send_pc' = "idle"
    /\ send_msg' = None
    /\ send_overlap' = FALSE
    /\ UNCHANGED <<transport, ready, receiver, guards, inbound, inbound_closed, recv_pc,
                   eof_returned, dsends, drecvs>>
    /\ UNCHANGED notDuplexVars

\* HttpClient::receive up to recv(): the receiver is taken out of its slot
HttpClientReceiveTake ==
    /\ transport = "http_client"
    /\ recv_pc = "idle"
    /\ drecvs < MaxDuplexRecvs
    /\ drecvs' = drecvs + 1
    /\ IF IsSome(receiver)
       THEN /\ receiver' = None
            /\ recv_pc' = "receiving"
            /\ UNCHANGED dev
       ELSE /\ dev' = ReceiveEvent(Err("Transport"), FALSE)
            /\ UNCHANGED <<receiver, recv_pc>>
    /\ UNCHANGED <<transport, ready, guards, inbound, inbound_closed, outbound, send_pc,
                   send_msg, send_overlap, eof_returned, dsends>>
    /\ UNCHANGED notDuplexVars

\* HttpClient::receive from there on: recv() yields a message and the
\* receiver is put back, or yields None and the receiver is dropped
HttpClientReceiveRecv ==
    /\ transport = "http_client"
    /\ recv_pc = "receiving"
    /\ IF inbound # <<>>
       THEN /\ inbound' = Tail(inbound)
            /\ receiver' = Some("rx")
            /\ dev' = ReceiveEvent(Ok(Head(inbound)), FALSE)
            /\ UNCHANGED eof_returned
       ELSE /\ inbound_closed
            /\ dev' = ReceiveEvent(Err("Transport"), TRUE)
            /\ eof_returned' = TRUE
            /\ UNCHANGED <<inbound, receiver>>
    /\ recv_pc' = "idle"
    /\ send_overlap' = FALSE
    /\ UNCHANGED <<transport, ready, guards, inbound_closed, outbound, send_pc, send_msg,
                   dsends, drecvs>>
    /\ UNCHANGED notDuplexVars

\* what the peer puts on the inbound stream in one write: a framed response,
\* a framed line that is no message, a response without its newline (stdio);
\* a message the SSE reader task parsed (HTTP)
InboundWrites ==
    IF transport = "http_client"
    THEN {<<ResponseSuccess(JEmptyObject, Number(1))>>}
    ELSE {Frame(Serialize(ResponseSuccess(JEmptyObject, Number(1)))),
          Frame(Garbage),
          <<Serialize(ResponseSuccess(JEmptyObject, Number(1)))>>}

DuplexPeerWrite(bytes) ==
    /\ ready
    /\ ~inbound_closed
    /\ Len(inbound) + Len(bytes) <= MaxInbound
    /\ inbound' = inbound \o bytes
    /\ UNCHANGED <<transport, ready, receiver, guards, inbound_closed, outbound, send_pc,
                   send_msg, send_overlap, recv_pc, eof_returned, dsends, drecvs, dev>>
    /\ UNCHANGED notDuplexVars

\* the peer closes its end: the child exits, the client closes the server's
\* stdin, the SSE stream ends
DuplexPeerClose ==
    /\ ready
    /\ ~inbound_closed
    /\ inbound_closed' = TRUE
    /\ UNCHANGED <<transport, ready, receiver, guards, inbound, outbound, send_pc,
                   send_msg, send_overlap, recv_pc, eof_returned, dsends, drecvs, dev>>
    /\ UNCHANGED notDuplexVars

\* the steps of a send in progress or about to start
SendStep ==
    \/ \E message \in DuplexMessages : StdioClientSendLock(message)
    \/ StdioClientSendWrite
    \/ \E message \in DuplexMessages : StdioServerSendLock(message)
    \/ StdioServerSendWrite
    \/ \E message \in DuplexMessages : HttpClientSendFields(message)
    \/ \E status \in {"2xx", "4xx"} : HttpClientSendPost(status)

NextDuplex ==
    \/ StdioClientInitialize
    \/ \E message \in DuplexMessages : StdioClientSendLock(message)
    \/ StdioClientSendWrite
    \/ StdioClientReceiveLock
    \/ StdioClientReceiveRead
    \/ \E message \in DuplexMessages : StdioServerSendLock(message)
    \/ StdioServerSendWrite
    \/ StdioServerReceiveLock
    \/ StdioServerReceiveRead
    \/ \E got_endpoint \in BOOLEAN : HttpClientInitialize(got_endpoint)
    \/ \E message \in DuplexMessages : HttpClientSendFields(message)
    \/ \E status \in {"2xx", "4xx"} : HttpClientSendPost(status)
    \/ HttpClientReceiveTake
    \/ HttpClientReceiveRecv
    \/ \E bytes \in InboundWrites : DuplexPeerWrite(bytes)
    \/ DuplexPeerClose

(***************************************************************************)
(* The subscription path of AxumHttpServer step by step: sse_handler       *)
(* around its await of the registry mutex, and the stream it returns,      *)
(* frame by frame.  Several subscriptions are in progress at once.  The    *)
(* registry, the counter and the channels are those of the HTTP part.      *)
(***************************************************************************)
\* an endpoint event that names the id the counter holds next
EndpointFrameNextId(client_id) ==
    [event |-> "endpoint",
     data |-> [endpoint |-> "http://addr/messages", clientId |-> NumToString(client_id + 1)]]

\* the stream's first item
EndpointFrame(client_id) ==
    [event |-> "endpoint",
     data |-> [endpoint |-> "http://addr/messages", clientId |-> NumToString(client_id)]]

\* the item the stream yields for a message taken from the channel
MessageFrame(message) == [event |-> "message", data |-> Serialize(message)]

InitSse ==
    /\ pending = {}
    /\ issued = <<>>
    /\ stream_pc = [c \in ClientIds |-> "none"]
    /\ frames = [c \in ClientIds |-> <<>>]
    /\ enqueued = [c \in ClientIds |-> <<>>]

\* a counter that hands out its value without advancing
FetchAddStuck(counter) == [value |-> counter, counter |-> counter]

\* fetch_add hands out the counter's value and adds one to it
FetchAdd(counter) == [value |-> counter, counter |-> counter + 1]

\* sse_handler up to the await of the registry mutex: the channel is created
\* and the client id is taken from the counter
SseHandlerFetch ==
    /\ Len(issued) < MaxClients
    /\ LET f == FetchAdd(next_client_id)
       IN /\ next_client_id' = f.counter
          /\ pending' = pending \cup {f.value}
          /\ issued' = Append(issued, f.value)
    /\ UNCHANGED <<stream_pc, frames, enqueued>>
    /\ UNCHANGED <<clients, queue, rx, lock, bcast, posts, posted, initialized_by, ev>>
    /\ UNCHANGED notSseVars

\* sse_handler from there on: the record is inserted and the stream returned
SseHandlerInsert(client_id) ==
    /\ client_id \in pending
    /\ lock = "free"
    /\ pending' = pending \ {client_id}
    /\ clients' = Insert(clients, client_id, NewClientInfo)
    /\ rx' = rx \cup {client_id}
    /\ queue' = [queue EXCEPT ![client_id] = <<>>]
    /\ stream_pc' = [stream_pc EXCEPT ![client_id] = "endpoint"]
    /\ UNCHANGED <<issued, frames, enqueued>>
    /\ UNCHANGED <<next_client_id, lock, bcast, posts, posted, initialized_by, ev>>
    /\ UNCHANGED notSseVars

\* the stream is polled for the first time: the endpoint event
StreamEndpoint(c) ==
    /\ stream_pc[c] = "endpoint"
    /\ frames' = [frames EXCEPT ![c] = Append(@, EndpointFrame(c))]
    /\ stream_pc' = [stream_pc EXCEPT ![c] = "messages"]
    /\ UNCHANGED <<pending, issued, enqueued>>
    /\ UNCHANGED httpVars
    /\ UNCHANGED notSseVars

\* one turn of the forwarding loop: rx.next() yields the oldest message
StreamMessage(c) ==
    /\ stream_pc[c] = "messages"
    /\ queue[c] # <<>>
    /\ frames' = [frames EXCEPT ![c] = Append(@, MessageFrame(Head(queue[c])))]
    /\ queue' = [queue EXCEPT ![c] = Tail(@)]
    /\ UNCHANGED <<pending, issued, stream_pc, enqueued>>
    /\ UNCHANGED <<clients, next_client_id, rx, lock, bcast, posts, posted, initialized_by, ev>>
    /\ UNCHANGED notSseVars

\* rx.next() yields None: the channel is drained and its sender, which only
\* the record holds, is gone; the stream removes the record of its id and ends
StreamRemove(c) ==
    /\ stream_pc[c] = "messages"
    /\ queue[c] = <<>>
    /\ c \notin Registered
    /\ lock = "free"
    /\ clients' = Remove(clients, c)
    /\ rx' = rx \ {c}
    /\ stream_pc' = [stream_pc EXCEPT ![c] = "ended"]
    /\ UNCHANGED <<pending, issued, frames, enqueued>>
    /\ UNCHANGED <<next_client_id, queue, lock, bcast, posts, posted, initialized_by, ev>>
    /\ UNCHANGED notSseVars

\* the subscriber disconnects: the response body is dropped, and with it the
\* stream at the yield or await it is suspended at, and the receiver it owns
StreamDropped(c) ==
    /\ stream_pc[c] \in {"endpoint", "messages"}
    /\ rx' = rx \ {c}
    /\ queue' = [queue EXCEPT ![c] = <<>>]
    /\ stream_pc' = [stream_pc EXCEPT ![c] = "dropped"]
    /\ UNCHANGED <<pending, issued, frames, enqueued>>
    /\ UNCHANGED <<clients, next_client_id, lock, bcast, posts, posted, initialized_by, ev>>
    /\ UNCHANGED notSseVars

\* the number of messages placed on the channels of the clients cs so far
RECURSIVE Enqueues(_)
Enqueues(cs) ==
    IF cs = {} THEN 0
    ELSE LET c == CHOOSE x \in cs : TRUE
         IN Len(enqueued[c]) + Enqueues(cs \ {c})

\* the messages handed to send_to_client
StreamedMessages == {ResponseSuccess(JEmptyObject, Number(1)), Notification("exit", None)}

\* send_to_client on behalf of send or message_handler
SseSendToClient(client_id, message) ==
    /\ lock = "free"
    /\ Enqueues(ClientIds) < MaxEnqueued
    /\ LET r == SendToClient(client_id, message)
       IN /\ queue' = Deliver(queue, r.placed)
          /\ enqueued' =
               IF r.placed = <<>> THEN enqueued
               ELSE [enqueued EXCEPT ![client_id] =
                       Append(@, [msg |-> message,
                                  before_endpoint |-> stream_pc[client_id] = "endpoint"])]
    /\ UNCHANGED <<pending, issued, stream_pc, frames>>
    /\ UNCHANGED <<clients, next_client_id, rx, lock, bcast, posts, posted, initialized_by, ev>>
    /\ UNCHANGED notSseVars

\* the steps of the streams, which the runtime takes while their subscribers
\* stay connected
StreamNext ==
    \/ \E c \in ClientIds : StreamEndpoint(c)
    \/ \E c \in ClientIds : StreamMessage(c)
    \/ \E c \in ClientIds : StreamRemove(c)

NextSse ==
    \/ SseHandlerFetch
    \/ \E c \in ClientIds : SseHandlerInsert(c)
    \/ StreamNext
    \/ \E c \in ClientIds : StreamDropped(c)
    \/ \E c \in ClientIds, message \in StreamedMessages : SseSendToClient(c, message)
    \/ Close

(***************************************************************************)
(* The router of AxumHttpServer: GET /events and POST /messages behind     *)
(* auth_middleware.  A header value is a text, written as the sequence of  *)
(* its pieces, and is either made of visible ASCII or not.                 *)
(***************************************************************************)
InitAuthWith(token) ==
    /\ auth_token = token
    /\ http_req = [route |-> "none"]

\* the token of the configurations with authentication
Tokens == {<<"secret">>}

InitAuth == \E token \in {None} \cup {Some(t) : t \in Tokens} : InitAuthWith(token)

HeaderValue(text) == [visible_ascii |-> TRUE, text |-> text]

\* the Authorization header of a request: missing, or one of these values
AuthorizationHeaders ==
    {None}
    \cup {Some(HeaderValue(text)) :
            text \in {<<"Bearer ", "secret">>, <<"Bearer ", "wrong">>, <<"bearer ", "secret">>,
                      <<"secret">>, <<"Bearer ", "secret", "x">>, <<"Bearer ">>}}
    \cup {Some([visible_ascii |-> FALSE, text |-> <<"Bearer ", "secret">>])}

\* HeaderValue::to_str
ToStr(value) == IF value.visible_ascii THEN Some(value.text) ELSE None

\* str::starts_with for a prefix that is one piece
StartsWith(text, prefix) == Len(text) >= 1 /\ text[1] = prefix

\* a validation that looks at the scheme only
ValidateAuthTokenSchemeOnly(authorization, token) ==
    IF ~IsSome(token) THEN "Ok"
    ELSE IF ~IsSome(authorization) THEN "Err"
    ELSE IF ~IsSome(ToStr(authorization.v)) THEN "Err"
    ELSE IF ~StartsWith(ToStr(authorization.v).v, "Bearer ") THEN "Err"
    ELSE "Ok"

\* validate_auth_token
ValidateAuthToken(authorization, token) ==
    IF ~IsSome(token) THEN "Ok"
    ELSE IF ~IsSome(authorization) THEN "Err"
    ELSE IF ~IsSome(ToStr(authorization.v)) THEN "Err"
    ELSE IF ~StartsWith(ToStr(authorization.v).v, "Bearer ") THEN "Err"
    ELSE IF Tail(ToStr(authorization.v).v) # token.v THEN "Err"
    ELSE "Ok"

\* the request is answered: what is remembered of it
Answered(route, authorization, status) ==
    http_req' = [route |-> route, authorization |-> authorization, status |-> status,
                 changed |-> httpVars' # httpVars]

\* auth_middleware in front of sse_handler
GetEvents(authorization) ==
    /\ IF ValidateAuthToken(authorization, auth_token) = "Ok"
       THEN SseHandlerStep /\ Answered("/events", authorization, 200)
       ELSE UNCHANGED httpVars /\ Answered("/events", authorization, 401)
    /\ UNCHANGED auth_token
    /\ UNCHANGED notAuthVars

\* auth_middleware in front of message_handler
PostMessages(authorization, header, message) ==
    /\ IF ValidateAuthToken(authorization, auth_token) = "Ok"
       THEN MessageHandlerStep(header, message) /\ Answered("/messages", authorization, 200)
       ELSE UNCHANGED httpVars /\ Answered("/messages", authorization, 401)
    /\ UNCHANGED auth_token
    /\ UNCHANGED notAuthVars

\* the bodies POSTed to /messages: a request that is answered and the
\* notification that clears the registry
RoutedMessages == {Request("ping", None, Number(1)), Notification("exit", None)}

NextAuth ==
    \/ \E authorization \in AuthorizationHeaders : GetEvents(authorization)
    \/ \E authorization \in AuthorizationHeaders, header \in Headers,
          message \in RoutedMessages : PostMessages(authorization, header, message)
    \/ \E c \in ClientIds : SseForward(c)
    \/ Close

(***************************************************************************)
(*   The example clients against the replies an arbitrary server sends:    *)
(*   main of examples/lifecycle_client.rs and run_client of                *)
(*   examples/ping_example.rs.  What receive returns is the server's       *)
(*   choice; what the client does with it is the code's.                   *)
(***************************************************************************)
\* run_client: `let total_pings = 3`
total_pings == 3

\* the ids a server may put on a response
ReplyIds ==
    {Number(1), Number(2), String("ping-1"), String("ping-2"), String("ping-3"),
     String("shutdown")}

\* what a call of receive can return to a client: a message, an error, or
\* (under the ping client's timeout) nothing in time
ReceiveOutcomes ==
    {[res |-> "Ok", msg |-> m] :
        m \in {ResponseSuccess(InitializeResult, id) : id \in ReplyIds}
              \cup {ResponseSuccess(JEmptyObject, id) : id \in ReplyIds}
              \cup {ResponseErr(ResponseError(METHOD_NOT_FOUND, "Method not found", None), id) :
                      id \in ReplyIds}
              \cup {Notification("notifications/progress", None)}}
    \cup {[res |-> "Err"], [res |-> "Timeout"]}

InitPairWith(program) ==
    /\ client_program = program
    /\ ppc = IF program = "lifecycle_client" THEN "send_initialize" ELSE "loop"
    /\ awaiting = None
    /\ ping_count = 0
    /\ ping_session_ids = {}
    /\ pev = NoEvent

InitPair == \E program \in {"lifecycle_client", "ping_example"} : InitPairWith(program)

\* the outcome as the lifecycle client's match sees it
AsReceived(outcome) ==
    IF outcome.res = "Ok" THEN [ok |-> TRUE, msg |-> outcome.msg] ELSE [ok |-> FALSE]

PairReceiveEvent(outcome, next) ==
    [op |-> "receive", pending |-> awaiting, outcome |-> outcome, next |-> next]

PairSendEvent(message, ok) == [op |-> "send", msg |-> message, ok |-> ok]

\* lifecycle_client: the message it sends at a position, and the position after
LifecycleMessageAt(pc) ==
    CASE pc = "send_initialize" -> ClientInitializeRequest
      [] pc = "send_initialized" -> Notification("initialized", None)
      [] pc = "send_shutdown" -> ClientShutdownRequest
      [] pc = "send_exit" -> Notification("exit", None)

LifecycleAfterSend(pc) ==
    CASE pc = "send_initialize" -> "recv_initialize"
      [] pc = "send_initialized" -> "send_shutdown"
      [] pc = "send_shutdown" -> "recv_shutdown"
      [] pc = "send_exit" -> "close"

\* lifecycle_client: `client.send(...).await?`
LifecycleClientSend(ok) ==
    /\ client_program = "lifecycle_client"
    /\ ppc \in {"send_initialize", "send_initialized", "send_shutdown", "send_exit"}
    /\ ppc' = IF ok THEN LifecycleAfterSend(ppc) ELSE "returned"
    /\ awaiting' = IF ok /\ LifecycleMessageAt(ppc).kind = "Request"
                   THEN Some(LifecycleMessageAt(ppc).id) ELSE None
    /\ pev' = PairSendEvent(LifecycleMessageAt(ppc), ok)
    /\ UNCHANGED <<client_program, ping_count, ping_session_ids>>
    /\ UNCHANGED notPairVars

\* lifecycle_client: `match client.receive().await?` after `initialize` and
\* after `shutdown`
LifecycleClientReceive(outcome) ==
    /\ client_program = "lifecycle_client"
    /\ ppc \in {"recv_initialize", "recv_shutdown"}
    /\ outcome.res # "Timeout"
    /\ LET next == IF ppc = "recv_initialize"
                   THEN AfterInitializeReply(AsReceived(outcome))
                   ELSE AfterShutdownReply(AsReceived(outcome))
       IN /\ ppc' = next
          /\ pev' = PairReceiveEvent(outcome, next)
    /\ awaiting' = None
    /\ UNCHANGED <<client_program, ping_count, ping_session_ids>>
    /\ UNCHANGED notPairVars

\* ping_example: fn request_id_matches
request_id_matches(request_id, response_id) ==
    CASE request_id.tag = "String" /\ response_id.tag = "String" ->
             request_id.str = response_id.str
      [] request_id.tag = "Number" /\ response_id.tag = "Number" ->
             request_id.num = response_id.num
      [] OTHER -> FALSE

\* run_client: the id of the next ping
PingRequestId == String("ping-" \o NumToString(ping_count + 1))

\* run_client: the head of the while loop up to the send of the ping
PingLoop(near_timeout, ok) ==
    /\ client_program = "ping_example"
    /\ ppc = "loop"
    /\ IF ping_count >= total_pings \/ near_timeout
       THEN /\ ppc' = "after_loop"
            /\ pev' = [op |-> "leave"]
            /\ UNCHANGED <<awaiting, ping_session_ids>>
       ELSE IF IdStr(PingRequestId) \in ping_session_ids
       THEN /\ ppc' = "after_loop"
            /\ pev' = [op |-> "used", id |-> PingRequestId]
            /\ UNCHANGED <<awaiting, ping_session_ids>>
       ELSE /\ ping_session_ids' = ping_session_ids \cup {IdStr(PingRequestId)}
            /\ ppc' = IF ok THEN "recv_ping" ELSE "returned"
            /\ awaiting' = IF ok THEN Some(PingRequestId) ELSE None
            /\ pev' = PairSendEvent(Request("ping", None, PingRequestId), ok)
    /\ UNCHANGED <<client_program, ping_count>>
    /\ UNCHANGED notPairVars

\* run_client: where the match on the timed receive leads
AfterPingReply(outcome) ==
    IF outcome.res # "Ok" THEN "after_loop"
    ELSE IF outcome.msg.kind # "Response" THEN "loop"
    ELSE IF ~request_id_matches(awaiting.v, outcome.msg.id) THEN "loop"
    ELSE IF IsSome(outcome.msg.error) THEN "after_loop"
    ELSE "counted"

\* run_client: `match timeout(PING_TIMEOUT, client.receive()).await`
PingReceive(outcome) ==
    /\ client_program = "ping_example"
    /\ ppc = "recv_ping"
    /\ LET next == AfterPingReply(outcome)
       IN /\ ppc' = IF next = "counted" THEN "loop" ELSE next
          /\ ping_count' = IF next = "counted" THEN ping_count + 1 ELSE ping_count
          /\ pev' = PairReceiveEvent(outcome, next)
    /\ awaiting' = None
    /\ UNCHANGED <<client_program, ping_session_ids>>
    /\ UNCHANGED notPairVars

\* run_client: the shutdown request after the loop
PingShutdown(ok) ==
    /\ client_program = "ping_example"
    /\ ppc = "after_loop"
    /\ IF ping_count = total_pings /\ "shutdown" \notin ping_session_ids
       THEN /\ ping_session_ids' = ping_session_ids \cup {"shutdown"}
            /\ ppc' = IF ok THEN "recv_shutdown" ELSE "returned"
            /\ awaiting' = IF ok THEN Some(String("shutdown")) ELSE None
            /\ pev' = PairSendEvent(Request("shutdown", None, String("shutdown")), ok)
       ELSE /\ ppc' = "close"
            /\ pev' = [op |-> "skip"]
            /\ UNCHANGED <<awaiting, ping_session_ids>>
    /\ UNCHANGED <<client_program, ping_count>>
    /\ UNCHANGED notPairVars

\* run_client: where the match on the reply to `shutdown` leads
AfterPingShutdownReply(outcome) ==
    IF outcome.res # "Ok" THEN "close"
    ELSE IF outcome.msg.kind # "Response" THEN "close"
    ELSE IF IsSome(outcome.msg.error) THEN "close"
    ELSE "send_exit"

PingReceiveShutdown(outcome) ==
    /\ client_program = "ping_example"
    /\ ppc = "recv_shutdown"
    /\ ppc' = AfterPingShutdownReply(outcome)
    /\ pev' = PairReceiveEvent(outcome, AfterPingShutdownReply(outcome))
    /\ awaiting' = None
    /\ UNCHANGED <<client_program, ping_count, ping_session_ids>>
    /\ UNCHANGED notPairVars

\* run_client: the exit notification
PingSendExit(ok) ==
    /\ client_program = "ping_example"
    /\ ppc = "send_exit"
    /\ ppc' = IF ok THEN "close" ELSE "returned"
    /\ pev' = PairSendEvent(Notification("exit", None), ok)
    /\ UNCHANGED <<client_program, awaiting, ping_count, ping_session_ids>>
    /\ UNCHANGED notPairVars

\* both clients: `client.close().await?`
PairClose ==
    /\ ppc = "close"
    /\ ppc' = "stopped"
    /\ pev' = [op |-> "close"]
    /\ UNCHANGED <<client_program, awaiting, ping_count, ping_session_ids>>
    /\ UNCHANGED notPairVars

NextPair ==
    \/ \E ok \in BOOLEAN : LifecycleClientSend(ok)
    \/ \E outcome \in ReceiveOutcomes : LifecycleClientReceive(outcome)
    \/ \E near_timeout \in BOOLEAN, ok \in BOOLEAN : PingLoop(near_timeout, ok)
    \/ \E outcome \in ReceiveOutcomes : PingReceive(outcome)
    \/ \E ok \in BOOLEAN : PingShutdown(ok)
    \/ \E outcome \in ReceiveOutcomes : PingReceiveShutdown(outcome)
    \/ \E ok \in BOOLEAN : PingSendExit(ok)
    \/ PairClose

(***************************************************************************)
(*   HttpClient of src/src/transport/http/client.rs: the caller's          *)
(*   initialize, send, receive and close, and the reader task that         *)
(*   initialize spawns on the SSE stream.  The server decides which frame  *)
(*   comes next on the stream and when.  Messages are numbered in the      *)
(*   order in which their frames arrive.                                   *)
(***************************************************************************)
\* initialize: `mpsc::channel(32)`
CHANNEL_CAPACITY == 32

\* initialize: `retries < 10`
MAX_RETRIES == 10

\* the kinds of frame the reader tells apart: the keep-alive, a well-formed
\* endpoint frame, a well-formed message frame, a message frame whose data is
\* no Message
FrameKinds == {"ping", "endpoint", "message", "malformed"}

InitHc ==
    /\ message_endpoint = None
    /\ client_id_field = None
    /\ rx_in = "none"
    /\ channel = <<>>
    /\ reader_pc = "none"
    /\ reader_msg = 0
    /\ msg_frames = 0
    /\ other_frames = 0
    /\ init_pc = "new"
    /\ retries = 0
    /\ init_result = "none"
    /\ closed_once = FALSE
    /\ abandoned = FALSE
    /\ delivered = <<>>
    /\ lost = {}
    /\ hc_sends = 0
    /\ hev = NoEvent

\* initialize up to the spawn of the reader: the GET of /events, the channel,
\* the receiver stored in its slot
InitializeGet(ok) ==
    /\ init_pc = "new"
    /\ ~closed_once
    /\ IF ok
       THEN /\ rx_in' = "slot"
            /\ reader_pc' = "reading"
            /\ init_pc' = "waiting"
            /\ UNCHANGED <<init_result, hev>>
       ELSE /\ init_pc' = "returned"
            /\ init_result' = "Err"
            /\ hev' = [op |-> "initialize", result |-> "Err", error |-> "Transport"]
            /\ UNCHANGED <<rx_in, reader_pc>>
    /\ UNCHANGED <<message_endpoint, client_id_field, channel, reader_msg, msg_frames,
                   other_frames, retries, closed_once, abandoned, delivered, lost,
                   hc_sends>>
    /\ UNCHANGED notHcVars

\* initialize: one turn of `while message_endpoint is none && retries < 10`,
\* or the exit from the loop
InitializeWait ==
    /\ init_pc = "waiting"
    /\ IF message_endpoint = None /\ retries < MAX_RETRIES
       THEN /\ retries' = retries + 1
            /\ UNCHANGED init_pc
       ELSE /\ init_pc' = "checking"
            /\ UNCHANGED retries
    /\ UNCHANGED <<message_endpoint, client_id_field, rx_in, channel, reader_pc,
                   reader_msg, msg_frames, other_frames, init_result, closed_once,
                   abandoned, delivered, lost, hc_sends, hev>>
    /\ UNCHANGED notHcVars

\* initialize: the check after the loop, and the return
InitializeReturn ==
    /\ init_pc = "checking"
    /\ init_pc' = "returned"
    /\ init_result' = IF message_endpoint = None THEN "Err" ELSE "Ok"
    /\ hev' = [op |-> "initialize",
               result |-> IF message_endpoint = None THEN "Err" ELSE "Ok",
               error |-> IF message_endpoint = None THEN "Transport" ELSE "none"]
    /\ UNCHANGED <<message_endpoint, client_id_field, rx_in, channel, reader_pc,
                   reader_msg, msg_frames, other_frames, retries, closed_once,
                   abandoned, delivered, lost, hc_sends>>
    /\ UNCHANGED notHcVars

\* the reader task takes the next frame off the stream
ReaderRead(kind) ==
    /\ reader_pc = "reading"
    /\ CASE kind = "endpoint" ->
              /\ other_frames < MaxOtherFrames
              /\ other_frames' = other_frames + 1
              /\ message_endpoint' = Some("/messages")
              /\ reader_pc' = "storing_id"
              /\ UNCHANGED <<reader_msg, msg_frames>>
         [] kind = "message" ->
              /\ msg_frames < MaxMsgFrames
              /\ msg_frames' = msg_frames + 1
              /\ reader_msg' = msg_frames + 1
              /\ reader_pc' = "sending"
              /\ UNCHANGED <<message_endpoint, other_frames>>
         [] OTHER ->
              /\ other_frames < MaxOtherFrames
              /\ other_frames' = other_frames + 1
              /\ UNCHANGED <<message_endpoint, reader_pc, reader_msg, msg_frames>>
    /\ UNCHANGED <<client_id_field, rx_in, channel, init_pc, retries, init_result,
                   closed_once, abandoned, delivered, lost, hc_sends, hev>>
    /\ UNCHANGED notHcVars

\* the reader task: `*client_id.lock().unwrap() = Some(id)`
ReaderStoreClientId ==
    /\ reader_pc = "storing_id"
    /\ client_id_field' = Some("1")
    /\ reader_pc' = "reading"
    /\ UNCHANGED <<message_endpoint, rx_in, channel, reader_msg, msg_frames, other_frames,
                   init_pc, retries, init_result, closed_once, abandoned, delivered, lost,
                   hc_sends, hev>>
    /\ UNCHANGED notHcVars

\* the reader task: `tx.send(message).await`, which waits for room, and fails
\* once the receiver is dropped
ReaderSend ==
    /\ reader_pc = "sending"
    /\ IF rx_in = "dropped"
       THEN /\ reader_pc' = "returned"
            /\ lost' = lost \cup {reader_msg}
            /\ UNCHANGED channel
       ELSE /\ Len(channel) < CHANNEL_CAPACITY
            /\ channel' = Append(channel, reader_msg)
            /\ reader_pc' = "reading"
            /\ UNCHANGED lost
    /\ reader_msg' = 0
    /\ UNCHANGED <<message_endpoint, client_id_field, rx_in, msg_frames, other_frames,
                   init_pc, retries, init_result, closed_once, abandoned, delivered,
                   hc_sends, hev>>
    /\ UNCHANGED notHcVars

\* the stream ends: `while let Some(Ok(chunk)) = stream.next().await` is left
\* and the task returns, which drops the sender
ReaderStreamEnd ==
    /\ reader_pc = "reading"
    /\ reader_pc' = "returned"
    /\ UNCHANGED <<message_endpoint, client_id_field, rx_in, channel, reader_msg,
                   msg_frames, other_frames, init_pc, retries, init_result, closed_once,
                   abandoned, delivered, lost, hc_sends, hev>>
    /\ UNCHANGED notHcVars

\* no call of initialize is in progress: initialize borrows the client mutably
CallerFree == init_pc \in {"new", "returned"}

\* HttpClient::send
HcSend(status_ok) ==
    /\ CallerFree
    /\ hc_sends < MaxHcSends
    /\ hc_sends' = hc_sends + 1
    /\ hev' = IF message_endpoint = None
              THEN [op |-> "send", result |-> "Err", error |-> "endpoint", posted |-> FALSE]
              ELSE IF client_id_field = None
              THEN [op |-> "send", result |-> "Err", error |-> "client_id", posted |-> FALSE]
              ELSE IF ~status_ok
              THEN [op |-> "send", result |-> "Err", error |-> "http", posted |-> TRUE]
              ELSE [op |-> "send", result |-> "Ok", error |-> "none", posted |-> TRUE]
    /\ UNCHANGED <<message_endpoint, client_id_field, rx_in, channel, reader_pc,
                   reader_msg, msg_frames, other_frames, init_pc, retries, init_result,
                   closed_once, abandoned, delivered, lost>>
    /\ UNCHANGED notHcVars

HcReceiveEvent(result, error, msg) ==
    [op |-> "receive", result |-> result, error |-> error, msg |-> msg,
     after_abandon |-> abandoned]

\* HttpClient::receive up to `recv().await`: the receiver is taken out of its slot
HcReceiveTake ==
    /\ CallerFree
    /\ IF rx_in = "slot"
       THEN /\ rx_in' = "future"
            /\ UNCHANGED hev
       ELSE /\ hev' = HcReceiveEvent("Err", "not_established", None)
            /\ UNCHANGED rx_in
    /\ UNCHANGED <<message_endpoint, client_id_field, channel, reader_pc, reader_msg,
                   msg_frames, other_frames, init_pc, retries, init_result, closed_once,
                   abandoned, delivered, lost, hc_sends>>
    /\ UNCHANGED notHcVars

\* HttpClient::receive: recv() is ready with a message, and the receiver goes
\* back into its slot; or with None, once the sender is dropped and the
\* channel is empty
HcReceiveRecv ==
    /\ rx_in = "future"
    /\ IF channel # <<>>
       THEN /\ channel' = Tail(channel)
            /\ delivered' = Append(delivered, Head(channel))
            /\ rx_in' = "slot"
            /\ hev' = HcReceiveEvent("Ok", "none", Some(Head(channel)))
       ELSE /\ reader_pc = "returned"
            /\ rx_in' = "dropped"
            /\ hev' = HcReceiveEvent("Err", "closed", None)
            /\ UNCHANGED <<channel, delivered>>
    /\ UNCHANGED <<message_endpoint, client_id_field, reader_pc, reader_msg, msg_frames,
                   other_frames, init_pc, retries, init_result, closed_once, abandoned,
                   lost, hc_sends>>
    /\ UNCHANGED notHcVars

\* the caller drops the future of receive while recv() is pending on the empty
\* channel: the receiver the future holds is dropped with it
HcReceiveAbandon ==
    /\ rx_in = "future"
    /\ channel = <<>>
    /\ rx_in' = "dropped"
    /\ abandoned' = TRUE
    /\ hev' = [op |-> "abandon"]
    /\ UNCHANGED <<message_endpoint, client_id_field, channel, reader_pc, reader_msg,
                   msg_frames, other_frames, init_pc, retries, init_result, closed_once,
                   delivered, lost, hc_sends>>
    /\ UNCHANGED notHcVars

\* HttpClient::close; it borrows the client mutably, so no receive is pending
HcClose ==
    /\ CallerFree
    /\ rx_in # "future"
    /\ message_endpoint' = None
    /\ client_id_field' = None
    /\ rx_in' = IF rx_in = "slot" THEN "dropped" ELSE rx_in
    /\ channel' = <<>>
    /\ closed_once' = TRUE
    /\ hev' = [op |-> "close", result |-> "Ok"]
    /\ UNCHANGED <<reader_pc, reader_msg, msg_frames, other_frames, init_pc, retries,
                   init_result, abandoned, delivered, lost, hc_sends>>
    /\ UNCHANGED notHcVars

ReaderNext ==
    \/ \E kind \in FrameKinds : ReaderRead(kind)
    \/ ReaderStoreClientId
    \/ ReaderSend
    \/ ReaderStreamEnd

NextHc ==
    \/ \E ok \in BOOLEAN : InitializeGet(ok)
    \/ InitializeWait
    \/ InitializeReturn
    \/ ReaderNext
    \/ \E status_ok \in BOOLEAN : HcSend(status_ok)
    \/ HcReceiveTake
    \/ HcReceiveRecv
    \/ HcReceiveAbandon
    \/ HcClose

(***************************************************************************)
(*   The HTTP server with its clock: ClientInfo.connected_at, and the      *)
(*   cleanup tasks that the subscriptions spawn.  Time is counted in       *)
(*   seconds and advances by one cleanup interval at a time, so that every *)
(*   instant of the model is a tick of the first task.                     *)
(***************************************************************************)
\* cleanup_inactive_clients: `Duration::from_secs(300)`
CLEANUP_TIMEOUT == 300

\* sse_handler: `interval(Duration::from_secs(60))`
CLEANUP_INTERVAL == 60

InitSweep ==
    /\ now = 0
    /\ connected_at = [c \in ClientIds |-> 0]
    /\ cleanup_now = None
    /\ last_activity = [c \in ClientIds |-> 0]
    /\ last_post = [c \in ClientIds |-> None]
    /\ wev = NoEvent

\* Instant::duration_since, which saturates at zero
DurationSince(later, earlier) == IF later >= earlier THEN later - earlier ELSE 0

\* time passes
Tick ==
    /\ now < MaxTicks * CLEANUP_INTERVAL
    /\ now' = now + CLEANUP_INTERVAL
    /\ wev' = NoEvent
    /\ UNCHANGED <<connected_at, cleanup_now, last_activity, last_post>>
    /\ UNCHANGED httpVars
    /\ UNCHANGED notSweepVars

\* sse_handler: the record carries the instant of the subscription; the
\* handler spawns a cleanup task whose first tick is due at once
TimedSseHandler ==
    /\ SseHandlerStep
    /\ connected_at' = [connected_at EXCEPT ![next_client_id] = now]
    /\ last_activity' = [last_activity EXCEPT ![next_client_id] = now]
    /\ last_post' = [last_post EXCEPT ![next_client_id] = None]
    /\ wev' = NoEvent
    /\ UNCHANGED <<now, cleanup_now>>
    /\ UNCHANGED notSweepVars

\* a handler that leaves connected_at as it is
KeepConnectedAt(header) == connected_at

\* message_handler: connected_at of the client the header names, if it is
\* registered, becomes the present instant
RefreshConnectedAt(header) ==
    IF IsSome(header) /\ header.v \in Registered
    THEN [connected_at EXCEPT ![header.v] = now]
    ELSE connected_at

\* message_handler, with the refresh that precedes its match on the message
TimedMessageHandler(header, message) ==
    /\ connected_at' = RefreshConnectedAt(header)
    /\ IF IsSome(header) /\ header.v \in Registered
       THEN /\ last_activity' = [last_activity EXCEPT ![header.v] = now]
            /\ last_post' = [last_post EXCEPT ![header.v] = Some(now)]
       ELSE UNCHANGED <<last_activity, last_post>>
    /\ MessageHandlerStep(header, message)
    /\ wev' = NoEvent
    /\ UNCHANGED <<now, cleanup_now>>
    /\ UNCHANGED notSweepVars

\* a cleanup task was spawned: some subscription has been made
CleanupSpawned == next_client_id > 1

\* cleanup_inactive_clients up to the lock: `let now = Instant::now()`
CleanupStart ==
    /\ CleanupSpawned
    /\ cleanup_now = None
    /\ cleanup_now' = Some(now)
    /\ wev' = NoEvent
    /\ UNCHANGED <<now, connected_at, last_activity, last_post>>
    /\ UNCHANGED httpVars
    /\ UNCHANGED notSweepVars

\* the ids `retain` keeps at the instant `at`
Retained(at) ==
    {c \in Registered : DurationSince(at, connected_at[c]) < CLEANUP_TIMEOUT}

\* cleanup_inactive_clients under the lock: `clients.retain(...)`
CleanupRetain ==
    /\ IsSome(cleanup_now)
    /\ lock = "free"
    /\ clients' = [c \in Retained(cleanup_now.v) |-> clients[c]]
    /\ wev' = [op |-> "sweep", at |-> cleanup_now.v, before |-> Registered,
               after |-> Retained(cleanup_now.v)]
    /\ cleanup_now' = None
    /\ UNCHANGED <<now, connected_at, last_activity, last_post>>
    /\ UNCHANGED <<next_client_id, queue, rx, lock, bcast, posts, posted, initialized_by, ev>>
    /\ UNCHANGED notSweepVars

\* the stream of client c forwards a queued message
TimedSseForward(c) ==
    /\ c \in rx
    /\ queue[c] # <<>>
    /\ queue' = [queue EXCEPT ![c] = Tail(@)]
    /\ wev' = NoEvent
    /\ UNCHANGED <<clients, next_client_id, rx, lock, bcast, posts, posted, initialized_by, ev>>
    /\ UNCHANGED <<now, connected_at, cleanup_now, last_activity, last_post>>
    /\ UNCHANGED notSweepVars

NextSweep ==
    \/ Tick
    \/ TimedSseHandler
    \/ \E header \in Headers, message \in RoutedMessages :
         TimedMessageHandler(header, message)
    \/ CleanupStart
    \/ CleanupRetain
    \/ \E c \in ClientIds : TimedSseForward(c)

(***************************************************************************)
(*   Several tasks sending on one stdio transport: StdioClient::send on    *)
(*   the child's stdin, StdioServer::send on stdout.  Both hold the        *)
(*   transport's tokio mutex from their first statement to their return.   *)
(*   write_all may hand the JSON text to the pipe in pieces; a text is     *)
(*   modelled as a head piece and a tail piece.                            *)
(***************************************************************************)
Senders == 1..MaxSenders

\* the messages the tasks send
SentMessages == {Request("ping", None, Number(1)), Notification("initialized", None)}

JsonPiece(message, part) == [kind |-> "json", text |-> Serialize(message), part |-> part]

Newline == [kind |-> "newline"]

\* the bytes of one frame: the JSON text, then `\n`
WholeFrame(message) == <<JsonPiece(message, "head"), JsonPiece(message, "tail"), Newline>>

InitWriters ==
    /\ wr_transport \in StdioTransports
    /\ wr_guard = None
    /\ wr_pc = [t \in Senders |-> "idle"]
    /\ wr_msg = [t \in Senders |-> None]
    /\ byte_stream = <<>>
    /\ pipe_broken = FALSE
    /\ wr_calls = 0
    /\ wr_results = <<>>

\* a mutex that lets every task in
MutexIgnored == TRUE

\* tokio::sync::Mutex::lock is ready once no task holds the guard
MutexFree == wr_guard = None

\* a task calls send: `self.stdin.lock().await` / `self.stdout.lock().await`
\* is entered
SendCall(t, message) ==
    /\ wr_pc[t] = "idle"
    /\ wr_calls < MaxSendCalls
    /\ wr_calls' = wr_calls + 1
    /\ wr_pc' = [wr_pc EXCEPT ![t] = "locking"]
    /\ wr_msg' = [wr_msg EXCEPT ![t] = Some(message)]
    /\ UNCHANGED <<wr_transport, wr_guard, byte_stream, pipe_broken, wr_results>>
    /\ UNCHANGED notWritersVars

\* send: the guard is obtained and the message serialised
SendLock(t) ==
    /\ wr_pc[t] = "locking"
    /\ MutexFree
    /\ wr_guard' = Some(t)
    /\ wr_pc' = [wr_pc EXCEPT ![t] = "head"]
    /\ UNCHANGED <<wr_transport, wr_msg, byte_stream, pipe_broken, wr_calls, wr_results>>
    /\ UNCHANGED notWritersVars

\* what the task writes next, and where it is afterwards
NextBytes(t) ==
    CASE wr_pc[t] = "head" -> JsonPiece(wr_msg[t].v, "head")
      [] wr_pc[t] = "tail" -> JsonPiece(wr_msg[t].v, "tail")
      [] wr_pc[t] = "newline" -> Newline

AfterWrite(pc) ==
    CASE pc = "head" -> "tail"
      [] pc = "tail" -> "newline"
      [] pc = "newline" -> "flush"

\* send returns, and the guard it holds is dropped
SendReturn(t, result) ==
    /\ wr_pc' = [wr_pc EXCEPT ![t] = "idle"]
    /\ wr_msg' = [wr_msg EXCEPT ![t] = None]
    /\ wr_guard' = None
    /\ wr_results' = Append(wr_results, result)

\* send: `write_all(json.as_bytes()).await?` and `write_all(b"\n").await?`,
\* one piece at a time; a write to a broken pipe fails and send returns
SendWrite(t) ==
    /\ wr_pc[t] \in {"head", "tail", "newline"}
    /\ IF pipe_broken
       THEN /\ SendReturn(t, "Err")
            /\ UNCHANGED byte_stream
       ELSE /\ byte_stream' = Append(byte_stream, NextBytes(t))
            /\ wr_pc' = [wr_pc EXCEPT ![t] = AfterWrite(wr_pc[t])]
            /\ UNCHANGED <<wr_guard, wr_msg, wr_results>>
    /\ UNCHANGED <<wr_transport, pipe_broken, wr_calls>>
    /\ UNCHANGED notWritersVars

\* send: `flush().await?`, and the return
SendFlush(t) ==
    /\ wr_pc[t] = "flush"
    /\ SendReturn(t, IF pipe_broken THEN "Err" ELSE "Ok")
    /\ UNCHANGED <<wr_transport, byte_stream, pipe_broken, wr_calls>>
    /\ UNCHANGED notWritersVars

\* the peer closes its end of the pipe
PipeBreak ==
    /\ ~pipe_broken
    /\ pipe_broken' = TRUE
    /\ UNCHANGED <<wr_transport, wr_guard, wr_pc, wr_msg, byte_stream, wr_calls,
                   wr_results>>
    /\ UNCHANGED notWritersVars

NextWriters ==
    \/ \E t \in Senders, message \in SentMessages : SendCall(t, message)
    \/ \E t \in Senders : SendLock(t)
    \/ \E t \in Senders : SendWrite(t)
    \/ \E t \in Senders : SendFlush(t)
    \/ PipeBreak

(***************************************************************************)
(* The specifications.                                                     *)
(***************************************************************************)
\* the parts a run does not exercise stay as constructed
IdleWriters == InitWriters /\ wr_transport = "stdio_client"

IdleLate == InitPairWith("lifecycle_client") /\ InitHc /\ InitSweep /\ IdleWriters

IdleDuplex == InitDuplexWith("stdio_server") /\ InitSse /\ InitAuthWith(None) /\ IdleLate

\* the parts of the module's first half, as constructed
IdleEarly ==
    /\ InitHttp /\ InitLifeWith("any") /\ InitCodec /\ InitStdio
    /\ InitDuplexWith("stdio_server") /\ InitSse /\ InitAuthWith(None)

HttpInit ==
    /\ InitHttp /\ InitLifeWith("any") /\ InitCodec /\ InitStdio /\ IdleDuplex
    /\ running = "http"

SpecHttp == HttpInit /\ [][NextHttp]_vars

LifeInit == InitLife /\ InitHttp /\ InitCodec /\ InitStdio /\ IdleDuplex /\ running = "life"

SpecLife == LifeInit /\ [][NextLife]_vars

CodecInit ==
    /\ InitCodec /\ InitHttp /\ InitLifeWith("any") /\ InitStdio /\ IdleDuplex
    /\ running = "codec"

SpecCodec == CodecInit /\ [][NextCodec]_vars

StdioInit ==
    /\ InitStdio /\ InitHttp /\ InitLifeWith("any") /\ InitCodec /\ IdleDuplex
    /\ running = "stdio"

SpecStdio == StdioInit /\ [][NextStdio]_vars

\* the operating system runs the child, and the runtime resumes close once
\* child.wait() is ready
SpecStdioFair == SpecStdio /\ WF_vars(ChildNext) /\ WF_vars(StdioCloseWait)

\* the three servers, one of them per run: the HTTP server with its built-in
\* dispatcher, the lifecycle server, and the stdio example server as the
\* child of a StdioClient
ServersInit ==
    /\ InitHttp /\ InitCodec /\ InitStdio /\ IdleDuplex
    /\ \/ running = "life" /\ InitLife
       \/ running \in {"http", "stdio"} /\ InitLifeWith("any")

NextServers ==
    \/ (running = "http" /\ NextHttp)
    \/ (running = "life" /\ NextLife)
    \/ (running = "stdio" /\ NextStdio)

SpecServers == ServersInit /\ [][NextServers]_vars

DuplexInit ==
    /\ InitDuplex /\ InitSse /\ InitAuthWith(None) /\ InitHttp /\ InitLifeWith("any") /\ InitCodec /\ InitStdio
    /\ IdleLate
    /\ running = "duplex"

SpecDuplex == DuplexInit /\ [][NextDuplex]_vars

SseInit ==
    /\ InitSse /\ InitAuthWith(None) /\ InitHttp /\ InitLifeWith("any") /\ InitCodec /\ InitStdio
    /\ InitDuplexWith("stdio_server")
    /\ IdleLate
    /\ running = "sse"

SpecSse == SseInit /\ [][NextSse]_vars

AuthInit ==
    /\ InitAuth /\ InitSse /\ InitHttp /\ InitLifeWith("any") /\ InitCodec /\ InitStdio
    /\ InitDuplexWith("stdio_server")
    /\ IdleLate
    /\ running = "auth"

SpecAuth == AuthInit /\ [][NextAuth]_vars

PairInit == InitPair /\ InitHc /\ InitSweep /\ IdleWriters /\ IdleEarly /\ running = "pair"

SpecPair == PairInit /\ [][NextPair]_vars

HcInit ==
    /\ InitHc /\ InitPairWith("lifecycle_client") /\ InitSweep /\ IdleWriters /\ IdleEarly
    /\ running = "hc"

SpecHc == HcInit /\ [][NextHc]_vars

SweepInit == IdleLate /\ IdleEarly /\ running = "sweep"

SpecSweep == SweepInit /\ [][NextSweep]_vars

WritersInit ==
    /\ InitWriters /\ InitPairWith("lifecycle_client") /\ InitHc /\ InitSweep /\ IdleEarly
    /\ running = "writers"

SpecWriters == WritersInit /\ [][NextWriters]_vars

\* the runtime polls a stream whose subscriber is connected, and resumes a
\* handler that awaits the free registry mutex
SpecSseFair ==
    /\ SpecSse
    /\ WF_vars(StreamNext)
    /\ \A c \in ClientIds : WF_vars(SseHandlerInsert(c))

(***************************************************************************)
(*                 Properties of the stdio lifecycle pair                  *)
(***************************************************************************)

\* the server's last loop iteration handled a request
HandledRequest == lev.op = "handle" /\ lev.msg.kind = "Request"

\* the JSON value a request carries as params.protocolVersion, Absent if none
ClientVersion(request) ==
    IF IsSome(request.params) THEN GetProtocolVersion(request.params.v) ELSE Absent

\* C5: a request with a fresh id and a method other than `initialize` that the
\* server reads before the `initialized` notification is answered with exactly
\* one line on stdout, the error response with the request's id and code
\* SERVER_NOT_INITIALIZED; the server stays uninitialized and keeps receiving.
C5_UninitializedRejects ==
    [][(/\ handled' = handled + 1
        /\ lev'.op = "handle"
        /\ lev'.msg.kind = "Request"
        /\ IdStr(lev'.msg.id) \notin session_ids
        /\ lev'.msg.method # "initialize"
        /\ ~initialized)
       => /\ stdout_pipe' =
               Append(stdout_pipe,
                      Serialize(ResponseErr(ResponseError(SERVER_NOT_INITIALIZED,
                                                          "Server not initialized", None),
                                            lev'.msg.id)))
          /\ ~initialized'
          /\ srv_pc' = "receiving"]_vars

\* a `shutdown` with a fresh id was rejected before `initialized`, and the
\* server is still receiving
C5_Witness ==
    /\ HandledRequest
    /\ lev.fresh
    /\ lev.msg.method = "shutdown"
    /\ ~lev.was_initialized
    /\ Len(lev.sent) = 1
    /\ srv_pc = "receiving"
    /\ ~initialized

\* C7: the server is initialized only after it has sent a success response to
\* an `initialize` request and then received the `initialized` notification;
\* as long as no `initialize` was answered with success, a non-lifecycle
\* request is rejected with SERVER_NOT_INITIALIZED.
C7_ActiveOnlyAfterHandshake ==
    /\ initialized => init_answered
    /\ (/\ HandledRequest
        /\ lev.fresh
        /\ lev.msg.method \notin {"initialize", "shutdown"}
        /\ ~lev.was_answered)
       => lev.sent = <<ServerNotInitialized(lev.msg.id)>>

\* C8: an `initialize` request whose protocolVersion is not "2024-11-05" is
\* answered with exactly one error response with the request's id, code
\* INVALID_REQUEST, message "Unsupported protocol version" and data naming the
\* supported version and the client's value; `initialized` is left as it was.
C8_VersionMismatchRejected ==
    (/\ HandledRequest
     /\ lev.msg.method = "initialize"
     /\ ClientVersion(lev.msg) # JString(PROTOCOL_VERSION))
    => /\ lev.sent =
            <<ResponseErr(
                 ResponseError(INVALID_REQUEST, "Unsupported protocol version",
                               Some([j |-> "object", keys |-> {"supported", "requested"},
                                     supported |-> <<JString(PROTOCOL_VERSION)>>,
                                     requested |-> ClientVersion(lev.msg)])),
                 lev.msg.id)>>
       /\ initialized = lev.was_initialized

\* C9: an `initialize` request with a fresh id (and the supported version)
\* that arrives after an `initialize` was answered with success is answered
\* with an INVALID_REQUEST error response.
C9_SecondInitializeRejected ==
    (/\ HandledRequest
     /\ lev.msg.method = "initialize"
     /\ lev.fresh
     /\ ClientVersion(lev.msg) = JString(PROTOCOL_VERSION)
     /\ lev.was_answered)
    => /\ Len(lev.sent) = 1
       /\ IsSome(lev.sent[1].error)
       /\ lev.sent[1].error.v.code = INVALID_REQUEST

\* C10: after the server that completed the handshake has answered `shutdown` with the success
\* response with null result it keeps receiving (it leaves the loop only on a
\* later message), and the client's `exit` is sent to a server that is still
\* receiving.
C10_ServerAwaitsExit ==
    /\ (/\ HandledRequest
        /\ lev.msg.method = "shutdown"
        /\ lev.was_answered
        /\ lev.was_initialized
        /\ lev.sent = <<ResponseSuccess(JNull, lev.msg.id)>>)
       => srv_pc = "receiving"
    /\ exit_sent_to \in {"none", "receiving"}

(***************************************************************************)
(*                     Properties of the message model                     *)
(***************************************************************************)

\* two ids have the same text: equal, or an integer and the string of its digits
SameText(a, b) ==
    \/ a = b
    \/ {a, b} = {Number(1), String("1")}
    \/ {a, b} = {Number(2), String("2")}

\* C11: over any sequence of validate_id_uniqueness calls on one used-ids set,
\* a call returns true exactly when no earlier call carried an id of the same
\* text (so integer 1 and string "1" collide), and no call removes an id from
\* the set.
C11_IdUniqueness ==
    [][/\ used_ids \subseteq used_ids'
       /\ Len(id_hist') = Len(id_hist) + 1
          => LET call == id_hist'[Len(id_hist')]
             IN call.result =
                  ~\E j \in 1..Len(id_hist) : SameText(id_hist[j].id, call.id)]_vars

\* integer 1 was accepted, then string "1" was refused
C11_Witness ==
    \E i, j \in 1..Len(id_hist) :
        /\ i < j
        /\ id_hist[i] = [id |-> Number(1), result |-> TRUE]
        /\ id_hist[j] = [id |-> String("1"), result |-> FALSE]

\* the key is in the JSON object
Present(slot) == slot.j # "absent"

\* the variant the field-presence rule gives an inbound object, "none" if it
\* has none of the three shapes
ShapeOf(l) ==
    IF Present(l.id) /\ Present(l.method) THEN "Request"
    ELSE IF Present(l.id) /\ (Present(l.result) \/ Present(l.error)) THEN "Response"
    ELSE IF Present(l.method) /\ ~Present(l.id) THEN "Notification"
    ELSE "none"

\* C13: for every message m built by the constructors, parsing the
\* serialization of m succeeds and yields m again (same variant, equal fields).
C13_RoundTrip ==
    cx.op = "round_trip" => (cx.result.ok /\ cx.result.msg = cx.msg.v)

\* C14: an inbound JSON object (with its `jsonrpc` member, and no member that
\* is null) is classified by field presence only: it is accepted as the
\* variant its shape gives, and an object of none of the three shapes is not
\* accepted as any Message.
C14_Discrimination ==
    (/\ cx.op = "receive"
     /\ cx.line.line = "json"
     /\ Present(cx.line.jsonrpc)
     /\ cx.line.id.j # "null"
     /\ cx.line.result.j # "null")
    => IF ShapeOf(cx.line) = "none"
       THEN ~cx.result.ok
       ELSE cx.result.ok /\ cx.result.msg.kind = ShapeOf(cx.line)

\* C15: an inbound response object that carries both `result` and `error`
\* (neither of them null) is not returned by receive as a Response.
C15_BothResultAndErrorRejected ==
    (/\ cx.op = "receive"
     /\ cx.line.line = "json"
     /\ cx.line.result.j \notin {"absent", "null"}
     /\ cx.line.error.j \notin {"absent", "null"})
    => ~(cx.result.ok /\ cx.result.msg.kind = "Response")

(***************************************************************************)
(*               Properties of StdioClient and its child                   *)
(***************************************************************************)

\* C12: when the client sends a request whose id was already used by a
\* request it sent earlier in the session, the send returns an error and
\* writes no byte to the pipe.
C12_ReusedIdRejectedLocally ==
    (sev.op = "send" /\ sev.reused) => (sev.result = "Err" /\ sev.bytes = <<>>)

\* C17: on both stdio halves a successful send writes the message's JSON
\* followed by exactly one newline byte, the JSON itself holds no newline,
\* and a serialization holding a newline makes send fail with nothing written.
C17_Framing ==
    [][/\ sends' = sends + 1
          => LET json == Serialize(sev'.msg)
             IN /\ sev'.result = "Ok"
                   => /\ written' = written \o <<json, NewlineByte>>
                      /\ ~TextContainsNewline(json)
                /\ TextContainsNewline(json)
                   => (sev'.result = "Err" /\ written' = written)
       /\ (Len(to_child') < Len(to_child) /\ xev'.op = "request")
          => /\ Len(xev'.sent) = 1
             /\ from_child' = from_child \o <<Serialize(xev'.sent[1]), NewlineByte>>
             /\ ~TextContainsNewline(Serialize(xev'.sent[1]))]_vars

\* the client sent a request whose params hold a newline character, and the
\* server has framed its reply
C17_Witness ==
    /\ sev.op = "send"
    /\ sev.result = "Ok"
    /\ sev.msg.kind = "Request"
    /\ sev.msg.params = Some(JString("a\nb"))
    /\ Len(written) = 2 * sends
    /\ xev.op = "request"
    /\ from_child # <<>>

\* C18: a close that has closed the child's stdin and waits for the child
\* always eventually returns, also when the child keeps running.
C18_CloseReturns == (close_pc = "waiting") ~> (close_pc = "idle")

\* C19: close has closed the child's stdin whenever it waits for the child,
\* and when the child has exited it returns an error for a non-success status
\* and Ok for success.
C19_CloseResult ==
    [][/\ close_pc' = "waiting" => ~IsSome(stdin')
       /\ (close_pc = "waiting" /\ close_pc' = "idle")
          => /\ ~IsSome(stdin)
             /\ proc \in {"success", "failure"}
             /\ sev'.op = "close"
             /\ sev'.result = (IF proc = "success" THEN "Ok" ELSE "Err")]_vars

\* a close waited for a child that exited with a failure status and returned
\* the error
C19_Witness ==
    /\ sev.op = "close"
    /\ sev.waited
    /\ sev.result = "Err"
    /\ proc = "failure"
    /\ ~IsSome(stdin)

\* C20: on the stdio client, every close after the first returns Ok, does not
\* wait, and leaves the client's handles exactly as it found them.
C20_CloseIdempotent ==
    (sev.op = "close" /\ sev.nth >= 2)
    => /\ sev.result = "Ok"
       /\ ~sev.waited
       /\ sev.after = sev.before

(***************************************************************************)
(*                    Properties of all three servers                      *)
(***************************************************************************)

\* the replies the server of this run sent to the request it handled last
Replies ==
    CASE running = "http" /\ ev.op = "post" /\ ev.msg.kind = "Request" ->
           [request |-> ev.msg, sent |-> [i \in 1..Len(ev.placed) |-> ev.placed[i][2]]]
      [] running = "life" /\ lev.op = "handle" /\ lev.msg.kind = "Request" ->
           [request |-> lev.msg, sent |-> lev.sent]
      [] running = "stdio" /\ xev.op = "request" ->
           [request |-> xev.msg, sent |-> xev.sent]
      [] OTHER -> [request |-> None, sent |-> <<>>]

\* C16: every response a server emits in reply to a request r (HTTP built-in
\* dispatcher, lifecycle server, stdio example server) is a Response with
\* id equal to r.id and exactly one of result and error, in the message and in
\* its JSON.
C16_ResponseWellFormed ==
    \A i \in 1..Len(Replies.sent) :
        LET p == Replies.sent[i]
        IN /\ p.kind = "Response"
           /\ p.id = Replies.request.id
           /\ IsSome(p.result) # IsSome(p.error)
           /\ Present(Serialize(p).result) # Present(Serialize(p).error)
           /\ Serialize(p).id = IdToJson(Replies.request.id)

\* the lifecycle server has answered `shutdown` with the null result
C16_Witness ==
    /\ running = "life"
    /\ Replies.sent # <<>>
    /\ Replies.request.method = "shutdown"
    /\ Replies.sent = <<ResponseSuccess(JNull, Replies.request.id)>>

(***************************************************************************)
(*        Properties of a transport shared by a sender and a receiver      *)
(***************************************************************************)

\* the last completed operation is a receive of a stdio transport
StdioReceived == dev.op = "receive" /\ transport \in StdioTransports

C22_SendIndependentOfReceive ==
    (ReceiveBlocked /\ (send_pc # "idle" \/ dsends < MaxDuplexSends)) => ENABLED SendStep

\* a send of a stdio server began and returned Ok while one receive stayed blocked
C22_Witness ==
    /\ transport = "stdio_server"
    /\ ReceiveBlocked
    /\ dev.op = "send"
    /\ dev.result = "Ok"
    /\ dev.during_receive

(***************************************************************************)
(*            Properties of the HTTP server's subscriptions                *)
(***************************************************************************)

\* the client ids handed out so far
Issued == {issued[i] : i \in 1..Len(issued)}

\* C23: the client ids are handed out in strictly increasing order starting
\* at 1, also to subscriptions that are in progress at the same time; every
\* record's id was handed out to one subscription only, and an id whose record
\* is about to be inserted has never had a record before.
C23_ClientIdsIncrease ==
    /\ \A i \in 1..Len(issued) :
         /\ i = 1 => issued[i] = 1
         /\ \A j \in 1..(i - 1) : issued[j] < issued[i]
    /\ Registered \subseteq Issued
    /\ \A c \in pending : c \notin Registered /\ stream_pc[c] = "none"

\* two subscriptions in progress at once: the later one's record was inserted
\* and removed again while the earlier one still awaits the registry
C23_Witness ==
    /\ issued = <<1, 2>>
    /\ pending = {1}
    /\ 2 \notin Registered
    /\ stream_pc[2] = "ended"

\* C24: once the stream of a client was dropped because its subscriber
\* disconnected, the client's record eventually leaves the registry.
C24_RecordRemovedOnDisconnect ==
    \A c \in ClientIds : (stream_pc[c] = "dropped") ~> (c \notin Registered)

(***************************************************************************)
(*         Further properties of the HTTP server (SpecHttp)                *)
(***************************************************************************)

\* the last operation was a POST of the `exit` notification
ExitTakenIn == ev.op = "post" /\ ev.msg.kind = "Notification" /\ ev.msg.method = "exit"

\* the last operation was a send of a response or a notification
LastWasSend == ev.op = "send" /\ ev.msg.kind \in {"Response", "Notification"}

\* the client ids whose record a wind-down removed before the last send: a
\* record leaves the registry by close or `exit` only, and ids are not reissued
WoundDown == {c \in ClientIds : c < next_client_id /\ c \notin ev.registered}

\* C25: right after close returned or an `exit` notification was taken in the
\* registry is empty, and a later send of a response or a notification places
\* nothing on the queue of a client whose record a wind-down removed.
C25_WindDown ==
    /\ (ev.op = "close" \/ ExitTakenIn) => clients = <<>>
    /\ LastWasSend => PlacedOn \cap WoundDown = {}

\* a send after a wind-down that left a subscriber connected
C25_Witness ==
    /\ LastWasSend
    /\ ev.registered = {}
    /\ ev.connected # {}
    /\ WoundDown # {}
    /\ ev.placed = <<>>

(***************************************************************************)
(*         Properties of the HTTP server's routes (SpecAuth)               *)
(***************************************************************************)

\* the header value that is exactly `Bearer <token>`
ExactBearer(token) == Some(HeaderValue(<<"Bearer ">> \o token))

\* a request was made to a server with a token, without that token's header
Unauthenticated ==
    /\ IsSome(auth_token)
    /\ http_req.route # "none"
    /\ http_req.authorization # ExactBearer(auth_token.v)

\* C26: with a token configured, a request to /events or /messages whose
\* Authorization header is missing or is not exactly `Bearer <token>` is
\* answered with 401 and leaves the server's state as it was.
C26_UnauthenticatedRejected ==
    Unauthenticated => (http_req.status = 401 /\ ~http_req.changed)

\* a POST with the wrong token while a client is registered
C26_Witness ==
    /\ Unauthenticated
    /\ http_req.route = "/messages"
    /\ http_req.authorization = Some(HeaderValue(<<"Bearer ", "wrong">>))
    /\ http_req.status = 401
    /\ Registered # {}

(***************************************************************************)
(*        Properties of one client's SSE stream (SpecSse)                  *)
(***************************************************************************)

\* C27: the first frame of a client's stream is the `endpoint` event with the
\* POST URL and the client's id; every later frame is a `message` event, and
\* the k-th of them carries the k-th message placed on the client's channel,
\* also for messages placed before the endpoint frame was yielded.
C27_StreamOrder ==
    \A c \in ClientIds :
        /\ Len(frames[c]) <= Len(enqueued[c]) + 1
        /\ \A i \in 1..Len(frames[c]) :
             IF i = 1
             THEN /\ frames[c][i].event = "endpoint"
                  /\ frames[c][i].data.endpoint = "http://addr/messages"
                  /\ frames[c][i].data.clientId = NumToString(c)
             ELSE /\ frames[c][i].event = "message"
                  /\ frames[c][i].data = Serialize(enqueued[c][i - 1].msg)

\* two different messages were placed before the endpoint frame, and the
\* stream has yielded all three frames
C27_Witness ==
    \E c \in ClientIds :
        /\ Len(frames[c]) = 3
        /\ Len(enqueued[c]) = 2
        /\ enqueued[c][1].before_endpoint /\ enqueued[c][2].before_endpoint
        /\ enqueued[c][1].msg # enqueued[c][2].msg

(***************************************************************************)
(*      Properties of message_handler and send (SpecHttp, continued)       *)
(***************************************************************************)

\* C28: a POST whose X-Client-ID header is absent, unparsable or names no
\* registered client leaves the registry and every queue as they were,
\* whatever message it carries.
C28_UnidentifiedPostIgnored ==
    [][(posts' = posts + 1 /\ ~ev'.registered) => (clients' = clients /\ queue' = queue)]_vars

\* C29: a request handed to send while a registered client is connected is
\* placed on the queue of at least one client.
C29_ServerRequestQueued ==
    (ev.op = "send" /\ ev.msg.kind = "Request" /\ ev.registered \cap ev.connected # {})
        => ev.placed # <<>>

(***************************************************************************)
(*          Properties of the stdio servers' sessions (SpecLife)           *)
(***************************************************************************)

\* C30: after the lifecycle server read a line that is not a valid message
\* it keeps receiving, so that the next line on the stream is still read.
C30_SessionSurvivesInvalidLine == (lev.op = "invalid") => (srv_pc = "receiving")

(***************************************************************************)
(*          Properties of the example clients' reply handling              *)
(***************************************************************************)

\* the client's last step was a receive, made while a request was pending, that
\* returned a response
ReceivedResponse ==
    /\ pev.op = "receive"
    /\ IsSome(pev.pending)
    /\ pev.outcome.res = "Ok"
    /\ pev.outcome.msg.kind = "Response"

\* the client is waiting for the reply to the same request
StillWaiting ==
    /\ ppc \in {"recv_initialize", "recv_shutdown", "recv_ping"}
    /\ awaiting = pev.pending

\* C31: a response whose id differs from the id of the client's pending request
\* is dropped: the client does not act on it as the reply, it keeps waiting for
\* the matching response and the session goes on.
C31_ResponsePairing ==
    (ReceivedResponse /\ pev.outcome.msg.id # pev.pending.v) => StillWaiting


(***************************************************************************)
(*                  Properties of the servers' dispatch                    *)
(***************************************************************************)

MethodNotFound(id) ==
    ResponseErr(ResponseError(METHOD_NOT_FOUND, "Method not found", None), id)

\* the request handled last reached the server's dispatch on its method, and
\* the server has no arm for that method: the lifecycle server is active and
\* the id is fresh, the HTTP server knows the poster and its channel is open
UnknownMethodDispatched ==
    CASE running = "http" ->
           /\ ev.op = "post" /\ ev.msg.kind = "Request"
           /\ ev.registered /\ ev.open
           /\ ev.msg.method \notin {"ping", "shutdown"}
      [] running = "life" ->
           /\ lev.op = "handle" /\ lev.msg.kind = "Request"
           /\ lev.fresh /\ lev.was_initialized
           /\ lev.msg.method \notin {"initialize", "shutdown"}
      [] running = "stdio" ->
           /\ xev.op = "request"
           /\ xev.msg.method # "prompts/execute"
           /\ xev.sent # <<ResponseErr(ResponseError(INVALID_REQUEST,
                                                     "Request ID has already been used",
                                                     None),
                                       xev.msg.id)>>
      [] OTHER -> FALSE

\* C32: a request whose method the server does not handle is answered with
\* exactly one METHOD_NOT_FOUND error response that carries the request's id,
\* by each of the three server loops.
C32_UnknownMethodAnswered ==
    UnknownMethodDispatched => Replies.sent = <<MethodNotFound(Replies.request.id)>>

(***************************************************************************)
(*                       Properties of HttpClient                          *)
(***************************************************************************)

\* what initialize returned, seen right after its return: Ok only with the
\* POST URL stored, Err only as a Transport error, and after the GET only once
\* all the waits are used up
InitializeOutcome ==
    hev.op = "initialize" =>
        /\ hev.result = "Ok" => IsSome(message_endpoint)
        /\ hev.result = "Err" =>
             /\ hev.error = "Transport"
             /\ rx_in = "none" \/ retries = MAX_RETRIES

\* the last call was a send made after initialize had returned an error
SendAfterFailedInitialize == hev.op = "send" /\ init_result = "Err"

\* C33: initialize returns Ok only with the endpoint frame received and its POST
\* URL stored, and a Transport error when no endpoint frame came within the
\* 10 waits; a send after such a failed initialize returns an error and makes
\* no POST.
C33_InitializeThenSend ==
    /\ InitializeOutcome
    /\ SendAfterFailedInitialize => (hev.result = "Err" /\ ~hev.posted)

(***************************************************************************)
(*              Properties of the HTTP server's cleanup                    *)
(***************************************************************************)

\* the step that led here was a cleanup
Swept == wev.op = "sweep"

\* the registered clients that had been inactive for the timeout or longer at
\* the instant of the cleanup
Inactive == {c \in wev.before : wev.at - last_activity[c] >= CLEANUP_TIMEOUT}

\* C34: a cleanup removes exactly the records whose last activity (the
\* subscription, or the latest POST to /messages carrying the client's id) lies
\* 5 minutes or more before it and keeps every other record; so a client
\* survives every cleanup that runs less than 5 minutes after its latest POST.
C34_InactivitySweep ==
    Swept =>
        /\ Registered = wev.after
        /\ wev.before \ wev.after = Inactive
        /\ \A c \in wev.before :
             (IsSome(last_post[c]) /\ wev.at - last_post[c].v < CLEANUP_TIMEOUT)
                 => c \in Registered

\* a cleanup removed the later record and kept the earlier one, whose client
\* had posted in the meantime
C34_Witness ==
    /\ Swept
    /\ wev.before = {1, 2}
    /\ wev.after = {1}
    /\ IsSome(last_post[1])
    /\ wev.at - last_post[1].v < CLEANUP_TIMEOUT
    /\ wev.at >= CLEANUP_TIMEOUT

(***************************************************************************)
(*            Properties of concurrent sends on a stdio transport          *)
(***************************************************************************)

\* the tasks that are between their first write and their return
Writing == {t \in Senders : wr_pc[t] \in {"head", "tail", "newline", "flush"}}

\* bytes begins with a whole frame: the two pieces of one JSON text, then `\n`
StartsWithFrame(bytes) ==
    /\ Len(bytes) >= 3
    /\ bytes[1].kind = "json"
    /\ bytes[1].part = "head"
    /\ bytes[2] = [bytes[1] EXCEPT !.part = "tail"]
    /\ bytes[3] = Newline

\* what is left of bytes after the whole frames at its beginning
RECURSIVE Remainder(_)
Remainder(bytes) ==
    IF StartsWithFrame(bytes) THEN Remainder(SubSeq(bytes, 4, Len(bytes))) ELSE bytes

\* rest is the beginning of the frame of message: nothing, its head piece, or
\* its whole JSON text
BeginsFrame(rest, message) ==
    \E n \in 0..2 : rest = SubSeq(WholeFrame(message), 1, n)

\* C35: with several tasks calling send on one stdio transport, at most one of
\* them is writing at any time, and the byte stream is a concatenation of whole
\* frames (a JSON text followed by `\n`), followed at most by the beginning of
\* the frame of the one task that is writing, or of a frame whose write failed
\* on the broken pipe; pieces of two frames are never interleaved.
C35_AtomicFrames ==
    /\ Cardinality(Writing) <= 1
    /\ \/ Remainder(byte_stream) = <<>>
       \/ \E t \in Writing : BeginsFrame(Remainder(byte_stream), wr_msg[t].v)
       \/ /\ pipe_broken
          /\ \E message \in SentMessages : BeginsFrame(Remainder(byte_stream), message)

\* one task is in the middle of its frame, after a whole frame of the other
\* task, which has called send again and waits for the mutex
C35_Witness ==
    /\ wr_pc[1] = "tail"
    /\ wr_pc[2] = "locking"
    /\ Len(byte_stream) = 4
    /\ StartsWithFrame(byte_stream)
    /\ wr_msg[1] # wr_msg[2]

\* the messages the reader has taken off the stream and no receive has
\* returned yet, in the order of their frames: what the channel holds, then
\* the message the reader is waiting to place
Inbound == IF reader_msg = 0 THEN channel ELSE Append(channel, reader_msg)

\* C36: the inbound queue of the HTTP client never holds more than 32 messages;
\* every well-formed `event: message` frame the reader takes off the stream is
\* enqueued (none is dropped), and the calls of receive return the messages in
\* the order in which their frames arrived.
C36_InboundQueue ==
    /\ Len(channel) <= CHANNEL_CAPACITY
    /\ ~closed_once => delivered \o Inbound = [i \in 1..msg_frames |-> i]

\* C38: a call of receive that the caller abandons before a message arrives (the
\* future is dropped, as under the ping client's timeout) leaves the HTTP client
\* usable: no message taken off the stream is lost, and a later receive does
\* not fail for want of the receiver.
C38_AbandonedReceive ==
    (abandoned /\ ~closed_once) =>
        /\ lost = {}
        /\ (hev.op = "receive" /\ hev.after_abandon) =>
               (hev.result = "Ok" \/ hev.error = "closed")

\* C39: once initialize has returned Ok, and until close, the client id the
\* endpoint frame assigned is stored, whatever the interleaving of the reader
\* task with the caller; a send made then never fails for a missing client id.
C39_ClientIdWithEndpoint ==
    (init_result = "Ok" /\ ~closed_once) =>
        /\ IsSome(client_id_field)
        /\ hev.op = "send" => hev.error # "client_id"

\* the last call was a send or a receive made outside the open window: before
\* initialize has returned Ok, or after close
OutsideOpenWindow ==
    /\ hev.op \in {"send", "receive"}
    /\ init_result # "Ok" \/ closed_once

\* C40: a send or a receive made before initialize has succeeded, or after
\* close, returns an error; the send makes no POST and the receive returns no
\* message.
C40_OutsideOpenWindow ==
    OutsideOpenWindow =>
        /\ hev.result = "Err"
        /\ hev.op = "send" => ~hev.posted
        /\ hev.op = "receive" => hev.msg = None

\* the same for StdioClient: the handles are absent before initialize and
\* after a close that has returned
StdioOutsideOpenWindow ==
    (sev.op \in {"send", "receive"} /\ (proc = "none" \/ closes >= 1)) =>
        sev.result = "Err"

(***************************************************************************)
(*                Properties of the ids of inbound objects                 *)
(***************************************************************************)

\* the last operation was a receive of an object that has a method and an id
\* whose JSON type is neither integer nor string
ReceivedIllTypedId ==
    /\ cx.op = "receive"
    /\ cx.line.line = "json"
    /\ cx.line.method.j = "string"
    /\ cx.line.id.j \notin {"absent", "int", "string"}

\* C37: an inbound object with a `method` and an `id` that is neither an
\* integer nor a string (null, a float, an array, an object) is accepted as no
\* Message at all; it is not taken for a Notification with the id ignored.
C37_IdTypeEnforced == ReceivedIllTypedId => ~cx.result.ok

====
